---- MODULE Spec2Model ----
(***************************************************************************)
(* Verification model of the Radio 357 podcast crawler / feed generator.   *)
(*                                                                         *)
(*   SpecFetch   - paginated episode crawl (fetch_all_episodes)            *)
(*   SpecAuth    - Auth token state machine, get_audio_url (resolve)       *)
(*   SpecAuthors - author aggregation (collect_all_authors_for_selection)  *)
(*   SpecSelect  - author aggregation and per-author episode selection as  *)
(*                 implemented by the three author scripts                 *)
(*   SpecFeed    - the feed builders (generate_rss_feed,                   *)
(*                 generate_author_rss_feed) applied to one episode list   *)
(*   SpecRun     - one run of generate_all_author_feeds or of the          *)
(*                 interactive generate_author_feed_by_id: cache build,    *)
(*                 author aggregation, per-author selection and feed       *)
(*   SpecDownload - the episode loops of the two downloaders with the      *)
(*                 streamed direct download step by step                   *)
(*   SpecFetchLive - SpecFetch with weak fairness of the crawl's steps     *)
(*   SpecSession - login at start-up of the scripts and the authorization  *)
(*                 of the requests that follow                             *)
(*   SpecPrograms - paginated program crawl (fetch_all_programs)           *)
(*   SpecBatch   - the program loop of generate_all_feeds                  *)
(***************************************************************************)
EXTENDS Integers, Sequences, FiniteSets, TLC

VARIABLES
    \* ---- fetch_all_episodes(program_id, max_episodes) ----
    upstream_len,     \* number of episodes the API holds for the program
    max_episodes,     \* the max_episodes argument
    all_episodes,     \* local list all_episodes
    page,             \* local page counter
    fe_pc,            \* "off" | "loop" | "break" | "done"
    fe_result,        \* returned list
    fe_clean,         \* TRUE while every page request was answered normally
    fe_requests       \* number of page requests issued

fetchVars == <<upstream_len, max_episodes, all_episodes, page, fe_pc,
               fe_result, fe_clean, fe_requests>>

VARIABLES
    \* ---- class Auth ----
    access_token,     \* self.access_token
    refresh_token,    \* self.refresh_token
    token_file,       \* content of the file self.token_file
    last_op,          \* last Auth operation run: "init" | "login" | "refresh"
    op_ok,            \* its boolean result
    id_resp,          \* the identity endpoint's answer to it (NoResponse if
                      \* no request was sent)
    last_write,       \* outcome of the file write of its save_tokens or "none"
    \* ---- get_audio_url(podcast_id, auth) ----
    rs_pc,            \* "idle" | "refresh" | "retry" | "done"
    rs_auth,          \* TRUE iff an Auth object was passed
    headers,          \* local variable headers
    rs_url,           \* returned url
    rs_needs_auth,    \* returned needs_auth
    rs_log            \* requests and refresh calls made by the current call

authVars == <<access_token, refresh_token, token_file, last_op, op_ok,
              id_resp, last_write>>

resolveVars == <<rs_pc, rs_auth, headers, rs_url, rs_needs_auth, rs_log>>

VARIABLES
    \* ---- collect_all_authors_for_selection(program_ids) ----
    program_ids,      \* the program_ids argument
    ca_i,             \* index of the next program id of the for loop
    ca_pc,            \* "off" | "scan" | "done"
    authors_dict,     \* dict authors_dict, as the list of its values in
                      \* insertion order
    episodes_cache,   \* dict episodes_cache, as the list of its entries in
                      \* insertion order
    authors_list,     \* returned authors_list
    scanned           \* every episode list fetched, in scan order

authorsVars == <<program_ids, ca_i, ca_pc, authors_dict, episodes_cache,
                 authors_list, scanned>>

VARIABLES
    \* ---- author aggregation / per-author selection applied to one input ----
    sel_pc,           \* "off" | "input" | name of the function applied
    sel_program_ids,  \* the program_ids argument
    sel_cache,        \* the episodes cache handed in (insertion order)
    sel_author,       \* the author_id / author_email argument
    sel_limit,        \* the max_total_episodes argument
    sel_include_exclusive,  \* the include_exclusive argument
    sel_out           \* what the function returned, or that it raised

selectVars == <<sel_pc, sel_program_ids, sel_cache, sel_author, sel_limit,
                sel_include_exclusive, sel_out>>

VARIABLES
    \* ---- generate_rss_feed / generate_author_rss_feed on one episode list ----
    fd_kind,          \* "off" | "program" | "author": which builder
    fd_owner,         \* program_id or author_id
    fd_episodes,      \* the episodes argument (the fetched list for a program)
    fd_unresolved,    \* ids of the episodes get_audio_url finds no url for
    fd_free_only,     \* the feed built with include_exclusive=False
    fd_all            \* the feed built with include_exclusive=True

feedVars == <<fd_kind, fd_owner, fd_episodes, fd_unresolved, fd_free_only,
              fd_all>>

VARIABLES
    \* ---- main() of generate_all_author_feeds / generate_author_feed_by_id ----
    run_script,       \* "off" | "all_feeds" | "all_feeds_authors_file"
                      \* (generate_all_author_feeds with --authors-file) |
                      \* "by_id"
    run_pc,           \* "off" | "build" | "collect" | "authors" | "choose" |
                      \* "done" | "crashed"
    run_program_ids,  \* program_ids
    run_served,       \* the episodes the content API holds for each program
    run_min_episodes, \* args.min_episodes
    run_i,            \* index of the next program of the loop under way
    run_cache,        \* episodes_cache (entries in insertion order)
    run_fetched,      \* what the cache build fetched: [program_id, episodes]
                      \* for every program whose metadata request succeeded
    run_late_requests,\* content API requests issued after the cache build
    run_acc,          \* authors_dict under construction, or that it raised
    run_authors,      \* authors / authors_to_generate
    run_a,            \* index of the next author of the generation loop
    run_feeds,        \* author ids generate_author_rss_feed was called for
    success_count,    \* success_count
    error_count       \* error_count

runVars == <<run_script, run_pc, run_program_ids, run_served,
             run_min_episodes, run_i, run_cache, run_fetched,
             run_late_requests, run_acc, run_authors, run_a, run_feeds,
             success_count, error_count>>

VARIABLES
    \* ---- download loops of download_from_feed and podcaster357 ----
    dl_script,          \* "off" | "feed" | "program"
    dl_overwrite,       \* args.overwrite (download_from_feed only)
    dl_episodes,        \* episodes / all_episodes
    dl_files,           \* the file at every destination path
    dl_idx,             \* index of the episode of the current iteration
    dl_pc,              \* "off" | "loop" | "request" | "writing" |
                        \* "finish" | "done"
    dl_kind,            \* "none" | "direct" | "hls": the download under way
    dl_chunks,          \* chunks written by the download under way
    dl_path,            \* output_path of the download under way
    dl_auth,            \* auth.is_authenticated() (download_from_feed)
    dl_before,          \* the file found at the head of the iteration
    dl_log,             \* what happened to every episode gone through
    dl_success_count,   \* success_count / downloaded_count
    dl_skipped_count,   \* skipped_count
    dl_error_count,     \* error_count / failed_count
    dl_exclusive_count  \* exclusive_count

dlVars == <<dl_script, dl_overwrite, dl_episodes, dl_files, dl_idx, dl_pc,
            dl_kind, dl_chunks, dl_path, dl_auth, dl_before, dl_log, dl_success_count,
            dl_skipped_count, dl_error_count, dl_exclusive_count>>

VARIABLES
    \* ---- main of a script from Auth(token_file) to its media-URL requests ----
    ses_script,       \* "off" | "rss" | "pod" | "dl"
    ses_pc,           \* "off" | "start" | "run" | "done"
    ses_file,         \* content of the token file when the run starts
    ses_access,       \* access_token of the Auth object
    ses_refresh,      \* refresh_token of the Auth object
    ses_auth,         \* FALSE iff main has set auth = None
    ses_login,        \* how the login block ended: "none" | "saved" |
                      \* "not_asked" | "ok" | "failed" | "skipped"
    ses_i,            \* episodes gone through so far
    ses_requests      \* headers of every media-URL request sent, in order

sessionVars == <<ses_script, ses_pc, ses_file, ses_access, ses_refresh,
                 ses_auth, ses_login, ses_i, ses_requests>>

VARIABLES
    \* ---- fetch_all_programs() ----
    fp_pc,            \* "off" | "loop" | "done"
    fp_page,          \* local page counter
    fp_all,           \* local list all_programs, as the list of the pages
                      \* it was extended with: <<page, number of programs>>
    fp_served,        \* the answers to the page requests, in order
    \* ---- main of generate_all_feeds ----
    bt_pc,            \* "off" | "loop" | "done" | "crashed"
    bt_program_ids,   \* the program ids of the configuration file
    bt_i,             \* index of the next program id of the for loop
    bt_log,           \* what happened to each program id gone through
    bt_success_count, \* local success_count
    bt_error_count    \* local error_count

programsVars == <<fp_pc, fp_page, fp_all, fp_served>>

batchVars == <<bt_pc, bt_program_ids, bt_i, bt_log, bt_success_count,
               bt_error_count>>

moreVars == <<sessionVars, programsVars, batchVars>>

laterVars == <<selectVars, feedVars, runVars, dlVars, moreVars>>

vars == <<fetchVars, authVars, resolveVars, authorsVars, laterVars>>

\* Python None
None == "None"

Min(a, b) == IF a <= b THEN a ELSE b

(***************************************************************************)
(* Values exchanged with the identity endpoint, the gateway and the token  *)
(* file                                                                    *)
(***************************************************************************)

\* Token strings a response body or the token file can carry.  The empty
\* string is a JSON string like any other; None stands for a missing key or
\* a JSON null (dict.get returns None for both).
TokenStrings == {"", "tokA", "tokB"}
TokenValues == TokenStrings \cup {None}

\* Python truthiness of a token value ("if self.access_token", "if not
\* self.refresh_token").
Truthy(v) == v /= None /\ v /= ""

\* Content of the token file: no file, a file json.load cannot turn into an
\* object, or the JSON object written by save_tokens.
AbsentFile == [kind |-> "absent", accessToken |-> None, refreshToken |-> None]
CorruptFile == [kind |-> "corrupt", accessToken |-> None, refreshToken |-> None]
JsonFile(a, r) == [kind |-> "json", accessToken |-> a, refreshToken |-> r]

\* Body of a 200 answer of the identity endpoint: a JSON object (keys may be
\* missing) or something resp.json()/result.get raises on.
NoBody == [kind |-> "none", accessToken |-> None, refreshToken |-> None]
UnparseableBody == [kind |-> "unparseable", accessToken |-> None,
                    refreshToken |-> None]
JsonBody(a, r) == [kind |-> "json", accessToken |-> a, refreshToken |-> r]

\* Answers to POST /auth/login and POST /auth/refresh; "exception" is a
\* timeout or connection error raised by requests.post.
NoResponse == [status |-> "no_request", body |-> NoBody]
IdentityResponses ==
    {[status |-> st, body |-> NoBody] : st \in {"401", "500", "exception"}}
    \cup {[status |-> "200", body |-> UnparseableBody]}
    \cup {[status |-> "200", body |-> JsonBody(a, r)] :
            a \in TokenValues, r \in TokenValues}

\* Outcome of the file write inside save_tokens: written, open() refused
\* (file untouched), or the write broke off after open() truncated the file.
WriteOutcomes == {"ok", "open_failed", "write_failed"}

\* Header maps, as sets of <<name, value>> pairs.
NoHeaders == {}
BearerHeaders(tok) == {<<"Authorization", <<"Bearer", tok>>>>}

\* Answers of GET /content/podcast/{id}/url.  url is the "url" member of a
\* 200 body (None if missing, "unparseable" if resp.json() raises).
GatewayResponses ==
    {[status |-> st, url |-> None] : st \in {"401", "403", "404", "exception"}}
    \cup {[status |-> "200", url |-> u] : u \in {"url", None, "unparseable"}}

(***************************************************************************)
(* Parts of the state a specification does not use                         *)
(***************************************************************************)

FetchOff ==
    /\ upstream_len = 0
    /\ max_episodes = 0
    /\ all_episodes = << >>
    /\ page = 0
    /\ fe_pc = "off"
    /\ fe_result = << >>
    /\ fe_clean = TRUE
    /\ fe_requests = 0

AuthorsOff ==
    /\ program_ids = << >>
    /\ ca_i = 1
    /\ ca_pc = "off"
    /\ authors_dict = << >>
    /\ episodes_cache = << >>
    /\ authors_list = << >>
    /\ scanned = << >>

\* Auth.__init__ before load_tokens, and no get_audio_url call in progress.
ResolveIdle ==
    /\ rs_pc = "idle"
    /\ rs_auth = FALSE
    /\ headers = NoHeaders
    /\ rs_url = None
    /\ rs_needs_auth = FALSE
    /\ rs_log = << >>

AuthOff ==
    /\ access_token = None
    /\ refresh_token = None
    /\ token_file = AbsentFile
    /\ last_op = "init"
    /\ op_ok = TRUE
    /\ id_resp = NoResponse
    /\ last_write = "none"
    /\ ResolveIdle

\* No aggregation or selection function applied.
SelectOff ==
    /\ sel_pc = "off"
    /\ sel_program_ids = << >>
    /\ sel_cache = << >>
    /\ sel_author = << >>
    /\ sel_limit = 0
    /\ sel_include_exclusive = FALSE
    /\ sel_out = << >>

\* A feed not built.
NoFeed == [built |-> FALSE, items |-> << >>, added_count |-> 0,
           skipped_count |-> 0]

FeedOff ==
    /\ fd_kind = "off"
    /\ fd_owner = ""
    /\ fd_episodes = << >>
    /\ fd_unresolved = {}
    /\ fd_free_only = NoFeed
    /\ fd_all = NoFeed

\* authors_dict = {} and no exception so far
EmptyAcc == [error |-> FALSE, dict |-> << >>]

RunOff ==
    /\ run_script = "off"
    /\ run_pc = "off"
    /\ run_program_ids = << >>
    /\ run_served = << >>
    /\ run_min_episodes = 0
    /\ run_i = 1
    /\ run_cache = << >>
    /\ run_fetched = << >>
    /\ run_late_requests = 0
    /\ run_acc = EmptyAcc
    /\ run_authors = << >>
    /\ run_a = 1
    /\ run_feeds = << >>
    /\ success_count = 0
    /\ error_count = 0

\* The file a destination path holds: none, one from before the run, one
\* under construction, or one a download of this run completed.
File(content, size) == [content |-> content, size |-> size]
NoFile == File("none", 0)

DlOff ==
    /\ dl_script = "off"
    /\ dl_overwrite = FALSE
    /\ dl_episodes = << >>
    /\ dl_files = << >>
    /\ dl_idx = 1
    /\ dl_pc = "off"
    /\ dl_kind = "none"
    /\ dl_chunks = 0
    /\ dl_path = ""
    /\ dl_auth = FALSE
    /\ dl_before = NoFile
    /\ dl_log = << >>
    /\ dl_success_count = 0
    /\ dl_skipped_count = 0
    /\ dl_error_count = 0
    /\ dl_exclusive_count = 0

\* No run of a main in progress.
SessionOff ==
    /\ ses_script = "off"
    /\ ses_pc = "off"
    /\ ses_file = AbsentFile
    /\ ses_access = None
    /\ ses_refresh = None
    /\ ses_auth = FALSE
    /\ ses_login = "none"
    /\ ses_i = 0
    /\ ses_requests = << >>

ProgramsOff ==
    /\ fp_pc = "off"
    /\ fp_page = 0
    /\ fp_all = << >>
    /\ fp_served = << >>

BatchOff ==
    /\ bt_pc = "off"
    /\ bt_program_ids = << >>
    /\ bt_i = 1
    /\ bt_log = << >>
    /\ bt_success_count = 0
    /\ bt_error_count = 0

MoreOff ==
    /\ SessionOff
    /\ ProgramsOff
    /\ BatchOff

\* The parts of the state used by the specifications of the first sections.
EarlierOff ==
    /\ FetchOff
    /\ AuthOff
    /\ AuthorsOff
    /\ SelectOff
    /\ FeedOff
    /\ RunOff
    /\ DlOff

LaterOff ==
    /\ MoreOff
    /\ SelectOff
    /\ FeedOff
    /\ RunOff
    /\ DlOff

(***************************************************************************)
(* Crawler: fetch_all_episodes                                             *)
(***************************************************************************)

\* Page-size ceiling of the content API ("if len(episodes) < 250: break").
PAGE_SIZE == 250

\* Largest upstream episode count explored.
MaxUpstream == 510

\* Values of max_episodes explored (defaults 100 and 500 of the scripts,
\* the scenario's 1000, and the page boundaries).
MaxEpisodesChoices == {0, 1, 100, 250, 251, 500, 1000}

\* Identifier of the k-th episode in the (stable) upstream order.
UpstreamEpisode(k) == k

\* What unlimited pagination of an upstream of n episodes yields.
Upstream(n) == [k \in 1..n |-> UpstreamEpisode(k)]

\* get_program_episodes(program_id, page): the "_embedded.podcasts" list of
\* page p (0-based) of an upstream holding n episodes.
get_program_episodes(n, p) ==
    LET first == PAGE_SIZE * p
        cnt   == Min(n, PAGE_SIZE * (p + 1)) - first
    IN  IF cnt <= 0 THEN << >>
        ELSE [i \in 1..cnt |-> UpstreamEpisode(first + i)]

\* Python slice s[:n] for n >= 0.
SliceTo(s, n) == SubSeq(s, 1, Min(Len(s), n))

\* Outcome of one page request: a well-formed page, a transport/HTTP
\* exception (raise_for_status), or a body without "_embedded.podcasts".
PageResponses == {"ok", "exception", "malformed"}

InitFetch ==
    /\ AuthOff
    /\ AuthorsOff
    /\ LaterOff
    /\ upstream_len \in 0..MaxUpstream
    /\ max_episodes \in MaxEpisodesChoices
    /\ all_episodes = << >>
    /\ page = 0
    /\ fe_pc = "loop"
    /\ fe_result = << >>
    /\ fe_clean = TRUE
    /\ fe_requests = 0

\* One iteration of a loop that is not bounded by max_episodes.
FetchPage_unbounded ==
    /\ fe_pc = "loop"
    /\ fe_requests' = fe_requests + 1
    /\ \E resp \in PageResponses :
        IF resp = "ok"
        THEN LET episodes == get_program_episodes(upstream_len, page)
             IN  /\ fe_clean' = fe_clean
                 /\ IF episodes = << >>
                    THEN /\ fe_pc' = "break"
                         /\ UNCHANGED <<all_episodes, page>>
                    ELSE /\ all_episodes' = all_episodes \o episodes
                         /\ IF Len(episodes) < PAGE_SIZE
                            THEN /\ fe_pc' = "break"
                                 /\ page' = page
                            ELSE /\ fe_pc' = "loop"
                                 /\ page' = page + 1
        ELSE /\ fe_clean' = FALSE
             /\ fe_pc' = "break"
             /\ UNCHANGED <<all_episodes, page>>
    /\ UNCHANGED <<upstream_len, max_episodes, fe_result>>
    /\ UNCHANGED <<authVars, resolveVars, authorsVars, laterVars>>

\* One iteration of "while len(all_episodes) < max_episodes".
FetchPage ==
    /\ fe_pc = "loop"
    /\ Len(all_episodes) < max_episodes
    /\ fe_requests' = fe_requests + 1
    /\ \E resp \in PageResponses :
        IF resp = "ok"
        THEN LET episodes == get_program_episodes(upstream_len, page)
             IN  /\ fe_clean' = fe_clean
                 /\ IF episodes = << >>
                    THEN /\ fe_pc' = "break"
                         /\ UNCHANGED <<all_episodes, page>>
                    ELSE /\ all_episodes' = all_episodes \o episodes
                         /\ IF Len(episodes) < PAGE_SIZE
                            THEN /\ fe_pc' = "break"
                                 /\ page' = page
                            ELSE /\ fe_pc' = "loop"
                                 /\ page' = page + 1
        ELSE /\ fe_clean' = FALSE
             /\ fe_pc' = "break"
             /\ UNCHANGED <<all_episodes, page>>
    /\ UNCHANGED <<upstream_len, max_episodes, fe_result>>
    /\ UNCHANGED <<authVars, resolveVars, authorsVars, laterVars>>

\* "return all_episodes[:max_episodes]"
FetchReturn_untruncated ==
    /\ \/ fe_pc = "break"
       \/ fe_pc = "loop" /\ ~(Len(all_episodes) < max_episodes)
    /\ fe_result' = all_episodes
    /\ fe_pc' = "done"
    /\ UNCHANGED <<upstream_len, max_episodes, all_episodes, page, fe_clean,
                   fe_requests>>
    /\ UNCHANGED <<authVars, resolveVars, authorsVars, laterVars>>

FetchReturn ==
    /\ \/ fe_pc = "break"
       \/ fe_pc = "loop" /\ ~(Len(all_episodes) < max_episodes)
    /\ fe_result' = SliceTo(all_episodes, max_episodes)
    /\ fe_pc' = "done"
    /\ UNCHANGED <<upstream_len, max_episodes, all_episodes, page, fe_clean,
                   fe_requests>>
    /\ UNCHANGED <<authVars, resolveVars, authorsVars, laterVars>>

NextFetch ==
    \/ FetchPage
    \/ FetchReturn

SpecFetch == InitFetch /\ [][NextFetch]_vars

\* An upstream that serves full pages for longer than any crawl explored
\* asks for.
LongUpstream == 2000

\* Upstream sizes of the crawls whose end is checked.
InitFetchLive ==
    /\ AuthOff
    /\ AuthorsOff
    /\ LaterOff
    /\ upstream_len \in {0, 100, 250, 260, 500, LongUpstream}
    /\ max_episodes \in MaxEpisodesChoices
    /\ all_episodes = << >>
    /\ page = 0
    /\ fe_pc = "loop"
    /\ fe_result = << >>
    /\ fe_clean = TRUE
    /\ fe_requests = 0

\* The crawl is one thread of control and every request ends within its
\* timeout: a step that can be taken is taken.
SpecFetchLive == InitFetchLive /\ [][NextFetch]_vars /\ WF_vars(NextFetch)

\* C1: with every page answered normally, fetch_episodes returns exactly the
\* first min(N, max_episodes) upstream episodes in upstream order - never more
\* than max_episodes, always a prefix of what unlimited pagination yields.
C1_FetchReturnsPrefix ==
    (fe_pc = "done" /\ fe_clean) =>
        /\ Len(fe_result) <= max_episodes
        /\ fe_result = SubSeq(Upstream(upstream_len), 1,
                              Min(upstream_len, max_episodes))

\* Scenario of C1: pages of 250 then 10, max_episodes = 100 -> first 100.
C1_Witness ==
    /\ fe_pc = "done" /\ fe_clean
    /\ upstream_len = 260 /\ max_episodes = 100
    /\ Len(fe_result) = 100
    /\ Len(all_episodes) = 250

(***************************************************************************)
(* Auth: token store and login / refresh                                   *)
(***************************************************************************)

\* Auth.get_headers for a session holding access token tok.
HeadersFor(tok) ==
    IF Truthy(tok) THEN BearerHeaders(tok) ELSE NoHeaders

\* Auth.get_headers
get_headers == HeadersFor(access_token)

\* Auth.is_authenticated
is_authenticated == access_token /= None

\* Auth.load_tokens: the pair read from the token file; a missing or
\* unreadable file leaves the None, None set by __init__.
load_tokens(file) ==
    IF file.kind = "json"
    THEN <<file.accessToken, file.refreshToken>>
    ELSE <<None, None>>

\* Auth.save_tokens(a, r) whose file write ends as w.
save_tokens_access_only(a, r, w) ==
    /\ access_token' = a
    /\ refresh_token' = refresh_token
    /\ token_file' = IF w = "ok" THEN JsonFile(a, r)
                     ELSE IF w = "open_failed" THEN token_file
                     ELSE CorruptFile

save_tokens(a, r, w) ==
    /\ access_token' = a
    /\ refresh_token' = r
    /\ token_file' = IF w = "ok" THEN JsonFile(a, r)
                     ELSE IF w = "open_failed" THEN token_file
                     ELSE CorruptFile

\* No get_audio_url call is in progress after the step.
ResolveReset ==
    /\ rs_pc' = "idle"
    /\ rs_auth' = FALSE
    /\ headers' = NoHeaders
    /\ rs_url' = None
    /\ rs_needs_auth' = FALSE
    /\ rs_log' = << >>

\* Auth(token_file): a new run constructs the session and loads the file.
NewSession ==
    /\ rs_pc \in {"idle", "done"}
    /\ access_token' = load_tokens(token_file)[1]
    /\ refresh_token' = load_tokens(token_file)[2]
    /\ last_op' = "init"
    /\ op_ok' = TRUE
    /\ id_resp' = NoResponse
    /\ last_write' = "none"
    /\ ResolveReset
    /\ UNCHANGED <<token_file, fetchVars, authorsVars, laterVars>>

\* Auth.login(email, password) answered by resp.
login(resp, w) ==
    /\ last_op' = "login"
    /\ id_resp' = resp
    /\ IF resp.status = "200" /\ resp.body.kind = "json"
       THEN /\ save_tokens(resp.body.accessToken, resp.body.refreshToken, w)
            /\ last_write' = w
            /\ op_ok' = TRUE
       ELSE /\ UNCHANGED <<access_token, refresh_token, token_file>>
            /\ last_write' = "none"
            /\ op_ok' = FALSE

Login ==
    /\ rs_pc \in {"idle", "done"}
    /\ \E resp \in IdentityResponses, w \in WriteOutcomes : login(resp, w)
    /\ ResolveReset
    /\ UNCHANGED <<fetchVars, authorsVars, laterVars>>

\* Auth.refresh() answered by resp (no request is sent without a refresh
\* token).
refresh_clears_on_failure(resp, w) ==
    /\ last_op' = "refresh"
    /\ IF ~Truthy(refresh_token)
       THEN /\ id_resp' = NoResponse
            /\ UNCHANGED <<access_token, refresh_token, token_file>>
            /\ last_write' = "none"
            /\ op_ok' = FALSE
       ELSE /\ id_resp' = resp
            /\ IF resp.status = "200" /\ resp.body.kind = "json"
               THEN /\ save_tokens(resp.body.accessToken,
                                   resp.body.refreshToken, w)
                    /\ last_write' = w
                    /\ op_ok' = TRUE
               ELSE /\ save_tokens(None, None, w)
                    /\ last_write' = w
                    /\ op_ok' = FALSE

refresh(resp, w) ==
    /\ last_op' = "refresh"
    /\ IF ~Truthy(refresh_token)
       THEN /\ id_resp' = NoResponse
            /\ UNCHANGED <<access_token, refresh_token, token_file>>
            /\ last_write' = "none"
            /\ op_ok' = FALSE
       ELSE /\ id_resp' = resp
            /\ IF resp.status = "200" /\ resp.body.kind = "json"
               THEN /\ save_tokens(resp.body.accessToken,
                                   resp.body.refreshToken, w)
                    /\ last_write' = w
                    /\ op_ok' = TRUE
               ELSE /\ UNCHANGED <<access_token, refresh_token, token_file>>
                    /\ last_write' = "none"
                    /\ op_ok' = FALSE

(***************************************************************************)
(* AudioResolver: get_audio_url(podcast_id, auth)                         *)
(***************************************************************************)

\* One entry of rs_log: a request to the media-URL endpoint (with the headers
\* sent and the access token held when it was sent) or a call of refresh().
UrlRequest(h, resp) ==
    [kind |-> "url", hdr |-> h, held |-> access_token,
     status |-> resp.status, ok |-> resp.status = "200"]

RefreshCall(status, ok) ==
    [kind |-> "refresh", hdr |-> NoHeaders, held |-> access_token,
     status |-> status, ok |-> ok]

\* "return url, needs_auth"
Return(url, needs_auth) ==
    /\ rs_pc' = "done"
    /\ rs_url' = url
    /\ rs_needs_auth' = needs_auth

\* First request of get_audio_url and the branch taken on its answer.
ResolveSend ==
    /\ rs_pc \in {"idle", "done"}
    /\ \E auth \in BOOLEAN, resp \in GatewayResponses :
        LET h == IF auth THEN get_headers ELSE NoHeaders
        IN  /\ rs_auth' = auth
            /\ headers' = h
            /\ rs_log' = <<UrlRequest(h, resp)>>
            /\ IF resp.status = "200"
               THEN IF resp.url = "unparseable"
                    THEN Return(None, FALSE)
                    ELSE Return(resp.url, FALSE)
               ELSE IF resp.status = "401" /\ auth /\ is_authenticated
               THEN /\ rs_pc' = "refresh"
                    /\ rs_url' = None
                    /\ rs_needs_auth' = FALSE
               ELSE IF resp.status = "403"
               THEN Return(None, TRUE)
               ELSE Return(None, FALSE)
    /\ UNCHANGED <<authVars, fetchVars, authorsVars, laterVars>>

\* "if auth.refresh():" after a 401.
ResolveRefresh_retry_anyway ==
    /\ rs_pc = "refresh"
    /\ \E resp \in IdentityResponses, w \in WriteOutcomes : refresh(resp, w)
    /\ rs_log' = Append(rs_log, RefreshCall(id_resp'.status, op_ok'))
    /\ rs_pc' = "retry"
    /\ UNCHANGED <<rs_url, rs_needs_auth>>
    /\ UNCHANGED <<rs_auth, headers, fetchVars, authorsVars, laterVars>>

ResolveRefresh ==
    /\ rs_pc = "refresh"
    /\ \E resp \in IdentityResponses, w \in WriteOutcomes : refresh(resp, w)
    /\ rs_log' = Append(rs_log, RefreshCall(id_resp'.status, op_ok'))
    /\ IF op_ok'
       THEN /\ rs_pc' = "retry"
            /\ UNCHANGED <<rs_url, rs_needs_auth>>
       ELSE Return(None, TRUE)
    /\ UNCHANGED <<rs_auth, headers, fetchVars, authorsVars, laterVars>>

\* The retried request after a successful refresh.
ResolveRetry_stale_headers ==
    /\ rs_pc = "retry"
    /\ \E resp \in GatewayResponses :
        LET h == headers
        IN  /\ headers' = h
            /\ rs_log' = Append(rs_log, UrlRequest(h, resp))
            /\ IF resp.status = "200"
               THEN IF resp.url = "unparseable"
                    THEN Return(None, FALSE)
                    ELSE Return(resp.url, FALSE)
               ELSE IF resp.status = "exception"
               THEN Return(None, FALSE)
               ELSE Return(None, TRUE)
    /\ UNCHANGED <<rs_auth, authVars, fetchVars, authorsVars, laterVars>>

ResolveRetry ==
    /\ rs_pc = "retry"
    /\ \E resp \in GatewayResponses :
        LET h == get_headers
        IN  /\ headers' = h
            /\ rs_log' = Append(rs_log, UrlRequest(h, resp))
            /\ IF resp.status = "200"
               THEN IF resp.url = "unparseable"
                    THEN Return(None, FALSE)
                    ELSE Return(resp.url, FALSE)
               ELSE IF resp.status = "exception"
               THEN Return(None, FALSE)
               ELSE Return(None, TRUE)
    /\ UNCHANGED <<rs_auth, authVars, fetchVars, authorsVars, laterVars>>

InitAuth ==
    /\ FetchOff
    /\ AuthOff
    /\ AuthorsOff
    /\ LaterOff

NextAuth ==
    \/ NewSession
    \/ Login
    \/ ResolveSend
    \/ ResolveRefresh
    \/ ResolveRetry

SpecAuth == InitAuth /\ [][NextAuth]_vars

(***************************************************************************)
(* Properties of SpecAuth                                                  *)
(***************************************************************************)

CountKind(kind) ==
    Cardinality({i \in 1..Len(rs_log) : rs_log[i].kind = kind})

\* C2: one get_audio_url call makes at most two URL requests and one refresh
\* call; after a 401 with an authenticated session refresh() is called exactly
\* once, a successful refresh is followed by exactly one retried URL request
\* (even if that is rejected again), and a failed refresh by no retry and the
\* result url = None, needs_auth = True.
C2_OneRefreshOneRetry ==
    /\ CountKind("url") <= 2
    /\ CountKind("refresh") <= 1
    /\ (/\ rs_pc = "done"
        /\ rs_auth
        /\ rs_log[1].status = "401"
        /\ rs_log[1].held /= None)
       => /\ CountKind("refresh") = 1
          /\ rs_log[2].kind = "refresh"
          /\ rs_log[2].ok => /\ CountKind("url") = 2
                             /\ Len(rs_log) = 3
                             /\ rs_log[3].kind = "url"
          /\ ~rs_log[2].ok => /\ CountKind("url") = 1
                              /\ Len(rs_log) = 2
                              /\ rs_url = None
                              /\ rs_needs_auth

\* A 401, a successful refresh, and a retry that is rejected again.
C2_Witness ==
    /\ rs_pc = "done"
    /\ rs_auth
    /\ Len(rs_log) = 3
    /\ rs_log[1].status = "401"
    /\ rs_log[2].ok
    /\ rs_log[3].status = "401"

\* C3: every request to the media-URL endpoint made on behalf of a session
\* carries the access token held when it is sent and never another one: the
\* retry after a refresh, and every later call, carry the new token.
C3_RequestsCarryCurrentToken ==
    \A i \in 1..Len(rs_log) :
        (rs_log[i].kind = "url" /\ rs_auth) =>
            /\ rs_log[i].hdr \in {NoHeaders, BearerHeaders(rs_log[i].held)}
            /\ Truthy(rs_log[i].held) =>
                   rs_log[i].hdr = BearerHeaders(rs_log[i].held)

\* The refresh replaced tokA by tokB and the retry carried tokB.
C3_Witness ==
    /\ rs_pc = "done"
    /\ rs_auth
    /\ Len(rs_log) = 3
    /\ rs_log[1].hdr = BearerHeaders("tokA")
    /\ rs_log[2].ok
    /\ rs_log[3].held = "tokB"
    /\ rs_log[3].hdr = BearerHeaders("tokB")

\* C4: refresh() without a refresh token fails without a network request; on
\* any answer other than a parseable 200 it fails and leaves the in-memory
\* pair and the token file as they were; on a parseable 200 it takes over the
\* new pair and succeeds.
C4_RefreshAllOrNothing ==
    [][(rs_pc = "refresh" /\ rs_pc' /= "refresh") =>
        /\ refresh_token = None =>
              (id_resp'.status = "no_request" /\ ~op_ok')
        /\ (id_resp'.status /= "200" \/ id_resp'.body.kind /= "json") =>
              /\ ~op_ok'
              /\ UNCHANGED <<access_token, refresh_token, token_file>>
        /\ (id_resp'.status = "200" /\ id_resp'.body.kind = "json") =>
              /\ op_ok'
              /\ access_token' = id_resp'.body.accessToken
              /\ refresh_token' = id_resp'.body.refreshToken
    ]_vars

\* A refresh answered 500 has failed and the old pair is still held and stored.
C4_Witness ==
    /\ last_op = "refresh"
    /\ ~op_ok
    /\ id_resp.status = "500"
    /\ access_token = "tokA"
    /\ refresh_token = "tokB"
    /\ token_file = JsonFile("tokA", "tokB")

\* C5: login returns success exactly when the identity endpoint answers 200,
\* and after a successful login is_authenticated() is true.
C5_LoginSuccessIff200 ==
    last_op = "login" =>
        /\ op_ok <=> id_resp.status = "200"
        /\ op_ok => is_authenticated

\* C6: if access_token is present then refresh_token is present.
C6_AccessImpliesRefresh ==
    access_token /= None => refresh_token /= None

\* C7: get_headers() carries the bearer header exactly when
\* is_authenticated() is true, and is the empty map otherwise.
C7_HeadersIffAuthenticated ==
    /\ is_authenticated => get_headers = BearerHeaders(access_token)
    /\ ~is_authenticated => get_headers = NoHeaders

MaxEpisodes == 2
MaxMemberships == 3

\* Python strings are sequences of one-character strings; Null is a missing
\* or null JSON member (what dict.get returns as None).
Null == <<"null">>

\* A key the JSON object does not hold at all, where the code tells it from
\* an explicit null (dict.get(key, default)).
Absent == <<"absent">>

\* "(x or "")"
OrEmpty(v) == IF v = Null \/ v = Absent THEN << >> ELSE v

\* str.strip()
RECURSIVE LStrip(_)
LStrip(t) == IF t /= << >> /\ Head(t) = " " THEN LStrip(Tail(t)) ELSE t

RECURSIVE RStrip(_)
RStrip(t) ==
    IF t /= << >> /\ t[Len(t)] = " "
    THEN RStrip(SubSeq(t, 1, Len(t) - 1))
    ELSE t

Strip(t) == RStrip(LStrip(t))

\* Team members as the API can deliver them: a null entry, complete members,
\* a member without a name, emails with surrounding blanks.
MemberWithId(n, e, i) == [falsy |-> FALSE, name |-> n, email |-> e, id |-> i]
Member(n, e) == MemberWithId(n, e, Absent)
FalsyMember == [falsy |-> TRUE, name |-> Null, email |-> Null, id |-> Null]

Members ==
    {FalsyMember,
     Member(<<"A">>, <<"a">>),
     Member(Null, <<" ", "a">>),
     Member(<<"B">>, <<"b">>),
     Member(<<"B", "2">>, <<" ", "b", " ">>),
     Member(<<"C">>, <<"c">>)}

\* Teams of at most n members (episode.get("team") or []: a missing team
\* behaves as the empty one).
Teams(n) == UNION {[1..k -> Members] : k \in 0..n}

\* An episode as fetched, before the program fields are injected.
RawEpisode(t) ==
    [team |-> t, program_name |-> None, program_id |-> None,
     program_image |-> None]

\* Results of fetch_all_episodes_from_program holding at most n episodes and
\* at most m team members in all.
RECURSIVE EpisodeLists(_, _)
EpisodeLists(n, m) ==
    {<< >>} \cup
    (IF n = 0 THEN {}
     ELSE UNION {{<<RawEpisode(t)>> \o rest :
                     rest \in EpisodeLists(n - 1, m - Len(t))} :
                 t \in Teams(m)})

\* Program metadata served by get_program_info.
ProgramIds == {"p1", "p2"}

ProgramInfo ==
    [id \in ProgramIds |->
        IF id = "p1" THEN [name |-> "Program One", image |-> "one.png"]
                     ELSE [name |-> "Program Two", image |-> "two.png"]]

\* Lists of program ids handed to the scan; the configuration file may name
\* a program twice.
ProgramIdLists ==
    {<< >>, <<"p1">>, <<"p1", "p2">>, <<"p1", "p1">>}

\* Body of "for member in team": one member folded into authors_dict.
AddMember_raw_email_key(dict, member, program_name) ==
    IF member.falsy THEN dict
    ELSE
    LET author_name  == Strip(OrEmpty(member.name))
        author_email == OrEmpty(member.email)
    IN  IF author_email /= << >> /\ author_name /= << >>
        THEN LET d1 == IF \E i \in DOMAIN dict : dict[i].email = author_email
                       THEN dict
                       ELSE Append(dict, [name |-> author_name,
                                          email |-> author_email,
                                          episode_count |-> 0,
                                          programs |-> {}])
             IN  [i \in DOMAIN d1 |->
                    IF d1[i].email = author_email
                    THEN [d1[i] EXCEPT !.episode_count = @ + 1,
                                       !.programs = @ \cup {program_name}]
                    ELSE d1[i]]
        ELSE dict

AddMember(dict, member, program_name) ==
    IF member.falsy THEN dict
    ELSE
    LET author_name  == Strip(OrEmpty(member.name))
        author_email == Strip(OrEmpty(member.email))
    IN  IF author_email /= << >> /\ author_name /= << >>
        THEN LET d1 == IF \E i \in DOMAIN dict : dict[i].email = author_email
                       THEN dict
                       ELSE Append(dict, [name |-> author_name,
                                          email |-> author_email,
                                          episode_count |-> 0,
                                          programs |-> {}])
             IN  [i \in DOMAIN d1 |->
                    IF d1[i].email = author_email
                    THEN [d1[i] EXCEPT !.episode_count = @ + 1,
                                       !.programs = @ \cup {program_name}]
                    ELSE d1[i]]
        ELSE dict

\* "for member in team"
RECURSIVE AddTeam(_, _, _)
AddTeam(dict, team, program_name) ==
    IF team = << >> THEN dict
    ELSE AddTeam(AddMember(dict, Head(team), program_name), Tail(team),
                 program_name)

\* "for episode in episodes" (the author-collecting loop)
RECURSIVE AddEpisodes(_, _, _)
AddEpisodes(dict, episodes, program_name) ==
    IF episodes = << >> THEN dict
    ELSE AddEpisodes(AddTeam(dict, Head(episodes).team, program_name),
                     Tail(episodes), program_name)

\* episodes_cache[program_id] = entry
CachePut(cache, entry) ==
    IF \E i \in DOMAIN cache : cache[i].program_id = entry.program_id
    THEN [i \in DOMAIN cache |->
            IF cache[i].program_id = entry.program_id THEN entry ELSE cache[i]]
    ELSE Append(cache, entry)

\* The loop that turns authors_dict into the list of summaries.
ToAuthorsList(dict) ==
    [i \in DOMAIN dict |->
        [id |-> dict[i].email, name |-> dict[i].name,
         episode_count |-> dict[i].episode_count,
         programs |-> dict[i].programs]]

\* list.sort(key=episode_count, reverse=True): a stable sort, equal counts
\* keep their order.  x goes in front of the first element with a smaller
\* count.
InsertByCount_ties_reversed(sorted, x) ==
    LET before == {i \in DOMAIN sorted :
                       \A k \in 1..i : sorted[k].episode_count > x.episode_count}
        n == Cardinality(before)
    IN  SubSeq(sorted, 1, n) \o <<x>> \o SubSeq(sorted, n + 1, Len(sorted))

InsertByCount(sorted, x) ==
    LET before == {i \in DOMAIN sorted :
                       \A k \in 1..i : sorted[k].episode_count >= x.episode_count}
        n == Cardinality(before)
    IN  SubSeq(sorted, 1, n) \o <<x>> \o SubSeq(sorted, n + 1, Len(sorted))

RECURSIVE SortByCountDesc(_)
SortByCountDesc(list) ==
    IF list = << >> THEN << >>
    ELSE InsertByCount(SortByCountDesc(SubSeq(list, 1, Len(list) - 1)),
                       list[Len(list)])

RECURSIVE Flatten(_)
Flatten(lists) ==
    IF lists = << >> THEN << >> ELSE Head(lists) \o Flatten(Tail(lists))

\* Positions <<episode, member>> of the team memberships of eps.
Positions(eps) ==
    UNION {{<<e, j>> : j \in 1..Len(eps[e].team)} : e \in 1..Len(eps)}

InitAuthors ==
    /\ FetchOff
    /\ AuthOff
    /\ LaterOff
    /\ program_ids \in ProgramIdLists
    /\ ca_i = 1
    /\ ca_pc = "scan"
    /\ authors_dict = << >>
    /\ episodes_cache = << >>
    /\ authors_list = << >>
    /\ scanned = << >>

\* One iteration of "for i, program_id in enumerate(program_ids, 1)".
CollectProgram ==
    /\ ca_pc = "scan"
    /\ ca_i <= Len(program_ids)
    /\ LET program_id == program_ids[ca_i]
       IN  \E info \in {"ok", "exception"} :
            IF info = "exception"
            THEN UNCHANGED <<authors_dict, episodes_cache, scanned>>
            ELSE \E fetched \in
                     EpisodeLists(MaxEpisodes - Len(Flatten(scanned)),
                                  MaxMemberships
                                    - Cardinality(Positions(Flatten(scanned)))) :
                 LET program_name  == ProgramInfo[program_id].name
                     program_image == ProgramInfo[program_id].image
                     episodes ==
                         [k \in DOMAIN fetched |->
                             [fetched[k] EXCEPT
                                 !.program_name = program_name,
                                 !.program_id = program_id,
                                 !.program_image = program_image]]
                 IN  /\ episodes_cache' =
                            CachePut(episodes_cache,
                                     [program_id |-> program_id,
                                      program_name |-> program_name,
                                      program_image |-> program_image,
                                      episodes |-> episodes])
                     /\ authors_dict' =
                            AddEpisodes(authors_dict, episodes, program_name)
                     /\ scanned' = Append(scanned, episodes)
    /\ ca_i' = ca_i + 1
    /\ UNCHANGED <<program_ids, ca_pc, authors_list>>
    /\ UNCHANGED <<fetchVars, authVars, resolveVars, laterVars>>

\* Build authors_list, sort it and return.
CollectReturn ==
    /\ ca_pc = "scan"
    /\ ca_i > Len(program_ids)
    /\ authors_list' = SortByCountDesc(ToAuthorsList(authors_dict))
    /\ ca_pc' = "done"
    /\ UNCHANGED <<program_ids, ca_i, authors_dict, episodes_cache, scanned>>
    /\ UNCHANGED <<fetchVars, authVars, resolveVars, laterVars>>

NextAuthors ==
    \/ CollectProgram
    \/ CollectReturn

SpecAuthors == InitAuthors /\ [][NextAuthors]_vars

(***************************************************************************)
(* Properties of SpecAuthors                                               *)
(***************************************************************************)

\* All episodes held by the cache, in cache order.
CachedEpisodes ==
    Flatten([i \in DOMAIN episodes_cache |-> episodes_cache[i].episodes])

\* Memberships whose trimmed email is the identity.
EmailMemberships(eps, identity) ==
    {p \in Positions(eps) :
        LET m == eps[p[1]].team[p[2]]
        IN  Strip(OrEmpty(m.email)) = identity}

\* Those of them that also carry a non-empty trimmed name.
NamedMemberships(eps, identity) ==
    {p \in EmailMemberships(eps, identity) :
        Strip(OrEmpty(eps[p[1]].team[p[2]].name)) /= << >>}

NoRepeatedProgramId ==
    \A i, j \in DOMAIN program_ids :
        program_ids[i] = program_ids[j] => i = j

Before(p, q) == p[1] < q[1] \/ (p[1] = q[1] /\ p[2] < q[2])

\* Position at which the identity was first aggregated during the scan.
FirstSeen(identity) ==
    LET S == NamedMemberships(Flatten(scanned), identity)
    IN  CHOOSE p \in S : \A q \in S : p = q \/ Before(p, q)

ScannedIdentities ==
    {Strip(OrEmpty(m.email)) : m \in Members} \ {<< >>}

\* C10: the list holds one summary per identity aggregated from the scan,
\* sorted by episode_count descending, equal counts in the order in which
\* the identities were first aggregated.
C10_SortedByCountFirstSeen ==
    ca_pc = "done" =>
        /\ {authors_list[i].id : i \in DOMAIN authors_list} =
               {id \in ScannedIdentities :
                    NamedMemberships(Flatten(scanned), id) /= {}}
        /\ \A i, j \in DOMAIN authors_list :
               i < j =>
                 /\ authors_list[i].id /= authors_list[j].id
                 /\ authors_list[i].episode_count >=
                        authors_list[j].episode_count
                 /\ authors_list[i].episode_count =
                        authors_list[j].episode_count =>
                        Before(FirstSeen(authors_list[i].id),
                               FirstSeen(authors_list[j].id))

\* Three authors with one episode each, first seen in two programs: the
\* sort keeps them in first-seen order.
C10_Witness ==
    /\ ca_pc = "done"
    /\ Len(episodes_cache) = 2
    /\ Len(authors_list) = 3
    /\ \A i \in 1..3 :
        /\ authors_list[i].episode_count = 1
        /\ authors_list[i].id = authors_dict[i].email

(***************************************************************************)
(* Author scripts: aggregation and per-author episode selection as pure    *)
(* functions of the program id list and of what the crawl delivered        *)
(***************************************************************************)

\* Most episodes held by the cache handed to the functions.
MaxSelEpisodes == 2

\* dict.get(key, default)
GetOr(v, default) == IF v = Absent THEN default ELSE v

\* publishedAt as the API can deliver it: missing, epoch milliseconds, or an
\* ISO date string (podcaster357 handles "timestamp lub string").
Ts(n) == [kind |-> "int", v |-> n]
TsAbsent == [kind |-> "absent", v |-> 0]
TsStr == [kind |-> "str", v |-> 1]

\* An episode as fetched; isFree is "true", "false", "absent" or "null".
Episode(id, t, free, ts) ==
    [id |-> id, team |-> t, isFree |-> free, publishedAt |-> ts,
     program_name |-> None, program_id |-> None, program_image |-> None]

\* The value of is_free = episode.get("isFree", True) in a condition.
IsFree(e) == e.isFree \in {"true", "absent"}

\* Team members carrying both an email and an id, an id that is not the
\* email, no id at all, blanks around both, and a null name.
M_a == MemberWithId(<<"A">>, <<"a">>, <<"a">>)
M_a_padded == MemberWithId(<<"A">>, <<" ", "a", " ">>, <<" ", "a", " ">>)
M_a_numeric_id == MemberWithId(<<"A">>, <<"a">>, <<"7">>)
M_b_no_id == MemberWithId(<<"B">>, <<"b">>, Absent)
M_b_null_name == MemberWithId(Null, <<"b">>, <<"b">>)

IdentityTeams ==
    {<< >>, <<M_a>>, <<M_a_padded>>, <<M_a_numeric_id>>, <<M_b_no_id>>,
     <<FalsyMember, M_a>>, <<M_b_no_id, M_a>>, <<M_b_null_name>>}

\* Episodes that differ in their teams only.
IdentityEpisodes == {Episode(None, t, "true", Ts(1)) : t \in IdentityTeams}

\* Episodes of author "a" that differ in isFree and publishedAt, and one
\* episode of somebody else.
DatedEpisodes ==
    {Episode(None, <<M_a>>, free, ts) :
        free \in {"true", "false", "absent"},
        ts \in {TsAbsent, Ts(0), Ts(2), TsStr}}
    \cup {Episode(None, <<M_b_no_id>>, "true", Ts(1))}

\* The API gives every episode an id of its own.
EpisodeId(k) == "e" \o ToString(k)

WithIds(eps) == [k \in DOMAIN eps |-> [eps[k] EXCEPT !.id = EpisodeId(k)]]

\* Episode lists of at most n episodes drawn from S.
ListsOver(S, n) == UNION {{WithIds(l) : l \in [1..k -> S]} : k \in 0..n}

\* The injection loop left out.
Inject_nothing(eps, program_id) == eps

\* The injection loop "for episode in episodes: episode["_program_..."] = ..."
Inject(eps, program_id) ==
    [k \in DOMAIN eps |->
        [eps[k] EXCEPT !.program_name = ProgramInfo[program_id].name,
                       !.program_id = program_id,
                       !.program_image = ProgramInfo[program_id].image]]

\* cache[program_id] = {'program_name': ..., 'program_image': ...,
\*                      'episodes': episodes}
Entry(program_id, eps) ==
    [program_id |-> program_id,
     program_name |-> ProgramInfo[program_id].name,
     program_image |-> ProgramInfo[program_id].image,
     episodes |-> Inject(eps, program_id)]

\* A program id list together with a cache a crawl of it can build from the
\* episodes eps: programs whose metadata request failed have no entry, a
\* program listed twice has one.
Arrangements(eps) ==
    {[program_ids |-> ids, cache |-> <<Entry("p1", eps)>>] :
        ids \in {<<"p1">>, <<"p1", "p2">>, <<"p1", "p1">>}}
    \cup {[program_ids |-> <<"p1", "p2">>, cache |-> <<Entry("p2", eps)>>]}
    \cup {[program_ids |-> <<"p1", "p2">>,
           cache |-> <<Entry("p1", SubSeq(eps, 1, k)),
                       Entry("p2", SubSeq(eps, k + 1, Len(eps)))>>] :
            k \in 0..Len(eps)}
    \cup (IF eps = << >>
          THEN {[program_ids |-> ids, cache |-> << >>] : ids \in ProgramIdLists}
          ELSE {})

SelLimits == {0, 1, 2}

\* "program_id in cache" and cache[program_id]
InCache(cache, program_id) ==
    \E i \in DOMAIN cache : cache[i].program_id = program_id

CacheGet(cache, program_id) ==
    cache[CHOOSE i \in DOMAIN cache : cache[i].program_id = program_id]

\* ---- sorting by publication date ----

\* key=lambda x: x.get("publishedAt", 0)
DateKey(e) ==
    IF e.publishedAt.kind = "absent" THEN Ts(0) ELSE e.publishedAt

\* Python orders int with int and str with str; every other pair of keys
\* makes "<" raise TypeError.
Comparable(k1, k2) == k1.kind = k2.kind /\ k1.kind \in {"int", "str"}

\* list.sort raises iff it has to compare two keys that are not comparable:
\* with two or more elements every element takes part in a comparison.
SortRaises(list) ==
    /\ Len(list) >= 2
    /\ \E i, j \in DOMAIN list : ~Comparable(DateKey(list[i]), DateKey(list[j]))

\* list.sort(key=DateKey, reverse=True) is stable: x goes in front of the
\* first element with a smaller key.
InsertByDate(sorted, x) ==
    LET before == {i \in DOMAIN sorted :
                       \A k \in 1..i : DateKey(sorted[k]).v >= DateKey(x).v}
        n == Cardinality(before)
    IN  SubSeq(sorted, 1, n) \o <<x>> \o SubSeq(sorted, n + 1, Len(sorted))

RECURSIVE SortByDateDesc(_)
SortByDateDesc(list) ==
    IF list = << >> THEN << >>
    ELSE InsertByDate(SortByDateDesc(SubSeq(list, 1, Len(list) - 1)),
                      list[Len(list)])

\* What a selection function hands back: the episodes and author_name, or
\* the exception that left it.
Raised == [error |-> TRUE, episodes |-> << >>, authors |-> << >>,
           author_name |-> Null]

Episodes(eps, name) ==
    [error |-> FALSE, episodes |-> eps, authors |-> << >>,
     author_name |-> name]

Authors(list) ==
    [error |-> FALSE, episodes |-> << >>, authors |-> list,
     author_name |-> Null]

\* "author_episodes.sort(...); author_episodes = author_episodes[:max]"
SortAndTruncate(author_episodes, author_name, max_total_episodes) ==
    IF SortRaises(author_episodes) THEN Raised
    ELSE Episodes(SliceTo(SortByDateDesc(author_episodes), max_total_episodes),
                  author_name)

\* ---- matching a team against an author ----

\* member_email = (member.get("email") or "").strip()
member_email(member) == Strip(OrEmpty(member.email))

\* "for member in team: ... if member_email == author_id: ... break"
\* Index of the member the loop breaks at, 0 if it runs to the end.
MatchByEmail(team, author_id) ==
    LET hits == {j \in DOMAIN team :
                    ~team[j].falsy /\ member_email(team[j]) = author_id}
    IN  IF hits = {} THEN 0
        ELSE CHOOSE j \in hits : \A k \in hits : j <= k

\* member_email = member.get("id", ""); member_email == author_email
MatchById(team, author_email) ==
    LET hits == {j \in DOMAIN team :
                    ~team[j].falsy /\ GetOr(team[j].id, << >>) = author_email}
    IN  IF hits = {} THEN 0
        ELSE CHOOSE j \in hits : \A k \in hits : j <= k

\* "if not author_name: author_name = member_name" over the matching
\* episodes eps, in order.
RECURSIVE AuthorName(_, _, _)
AuthorName(eps, author_id, author_name) ==
    IF eps = << >> THEN author_name
    ELSE LET j == MatchByEmail(Head(eps).team, author_id)
             next == IF j /= 0 /\ OrEmpty(author_name) = << >>
                     THEN Strip(OrEmpty(Head(eps).team[j].name))
                     ELSE author_name
         IN  AuthorName(Tail(eps), author_id, next)

\* ---- generate_author_feed_by_id.collect_episodes_by_author_id_from_cache ----

\* Episodes of one program that pass "if has_author" and
\* "if is_free or include_exclusive".
MatchingByEmail(episodes, author_id, include_exclusive) ==
    SelectSeq(episodes,
              LAMBDA e : /\ MatchByEmail(e.team, author_id) /= 0
                         /\ (IsFree(e) \/ include_exclusive))

\* "for program_id, cache_data in episodes_cache.items()" from entry i on,
\* with the break once max_total_episodes episodes are gathered.  visited
\* collects the episode lists gone through.
RECURSIVE ScanCache(_, _, _, _, _, _, _)
ScanCache(cache, i, author_episodes, visited, author_id, max_total_episodes, include_exclusive) ==
    IF i > Len(cache)
    THEN [episodes |-> author_episodes, visited |-> visited]
    ELSE LET found == author_episodes \o
                          MatchingByEmail(cache[i].episodes, author_id,
                                          include_exclusive)
             seen  == visited \o cache[i].episodes
         IN  IF Len(found) >= max_total_episodes
             THEN [episodes |-> found, visited |-> seen]
             ELSE ScanCache(cache, i + 1, found, seen, author_id,
                            max_total_episodes, include_exclusive)

collect_episodes_by_author_id_from_cache(author_id, cache, max_total_episodes, include_exclusive) ==
    LET scan == ScanCache(cache, 1, << >>, << >>, author_id,
                          max_total_episodes, include_exclusive)
    IN  SortAndTruncate(scan.episodes,
                        AuthorName(scan.visited, author_id, Null),
                        max_total_episodes)

\* ---- generate_author_feed_by_id.collect_episodes_by_author_id ----

\* "for i, program_id in enumerate(program_ids, 1)" from index i on.  served
\* holds what the API serves: a program without an entry answers the
\* metadata request with an error and is skipped.
RECURSIVE ScanPrograms(_, _, _, _, _, _, _, _)
ScanPrograms(program_ids_, served, i, author_episodes, visited, author_id, max_total_episodes, include_exclusive) ==
    IF i > Len(program_ids_)
    THEN [episodes |-> author_episodes, visited |-> visited]
    ELSE IF ~InCache(served, program_ids_[i])
    THEN ScanPrograms(program_ids_, served, i + 1, author_episodes, visited,
                      author_id, max_total_episodes, include_exclusive)
    ELSE LET episodes == CacheGet(served, program_ids_[i]).episodes
             found == author_episodes \o
                          MatchingByEmail(episodes, author_id,
                                          include_exclusive)
             seen  == visited \o episodes
         IN  IF Len(found) >= max_total_episodes
             THEN [episodes |-> found, visited |-> seen]
             ELSE ScanPrograms(program_ids_, served, i + 1, found, seen,
                               author_id, max_total_episodes,
                               include_exclusive)

collect_episodes_by_author_id(author_id, program_ids_, served, max_total_episodes, include_exclusive) ==
    LET scan == ScanPrograms(program_ids_, served, 1, << >>, << >>, author_id,
                             max_total_episodes, include_exclusive)
    IN  SortAndTruncate(scan.episodes,
                        AuthorName(scan.visited, author_id, Null),
                        max_total_episodes)

\* ---- generate_all_author_feeds.collect_episodes_by_author_optimized ----

MatchingById(episodes, author_email, include_exclusive) ==
    SelectSeq(episodes,
              LAMBDA e : /\ MatchById(e.team, author_email) /= 0
                         /\ (IsFree(e) \/ include_exclusive))

\* "for program_id in program_ids: if program_id not in all_episodes_cache:
\* continue ..." from index i on.
RECURSIVE ScanOptimized(_, _, _, _, _, _, _)
ScanOptimized(program_ids_, cache, i, author_episodes, author_email, max_total_episodes, include_exclusive) ==
    IF i > Len(program_ids_) THEN author_episodes
    ELSE IF ~InCache(cache, program_ids_[i])
    THEN ScanOptimized(program_ids_, cache, i + 1, author_episodes,
                       author_email, max_total_episodes, include_exclusive)
    ELSE LET found == author_episodes \o
                          MatchingById(CacheGet(cache, program_ids_[i]).episodes,
                                       author_email, include_exclusive)
         IN  IF Len(found) >= max_total_episodes THEN found
             ELSE ScanOptimized(program_ids_, cache, i + 1, found,
                                author_email, max_total_episodes,
                                include_exclusive)

collect_episodes_by_author_optimized(author_email, program_ids_, cache, max_total_episodes, include_exclusive) ==
    SortAndTruncate(ScanOptimized(program_ids_, cache, 1, << >>, author_email,
                                  max_total_episodes, include_exclusive),
                    Null, max_total_episodes)

\* ---- aggregation: generate_author_feed_by_id and list_authors ----

\* The scan loop of collect_all_authors_for_selection from index i on:
\* programs whose metadata request fails are skipped.
RECURSIVE AggregateScan(_, _, _, _)
AggregateScan(program_ids_, served, i, dict) ==
    IF i > Len(program_ids_) THEN dict
    ELSE IF ~InCache(served, program_ids_[i])
    THEN AggregateScan(program_ids_, served, i + 1, dict)
    ELSE LET entry == CacheGet(served, program_ids_[i])
         IN  AggregateScan(program_ids_, served, i + 1,
                           AddEpisodes(dict, entry.episodes,
                                       entry.program_name))

collect_all_authors_for_selection(program_ids_, served) ==
    Authors(SortByCountDesc(
                ToAuthorsList(AggregateScan(program_ids_, served, 1, << >>))))

\* list_authors.collect_all_authors runs the same loop without keeping the
\* episodes.
list_authors_collect_all_authors(program_ids_, served) ==
    Authors(SortByCountDesc(
                ToAuthorsList(AggregateScan(program_ids_, served, 1, << >>))))

\* ---- aggregation: generate_all_author_feeds.collect_all_authors ----

\* member.get(key, "").strip(): a null value has no strip().
StripRaises(v) == v = Null

GetStrip(v) == Strip(GetOr(v, << >>))

\* Body of "for member in team"; acc holds the dict built so far or the
\* fact that an exception left the function.
BatchAddMember(acc, member, program_name) ==
    IF acc.error \/ member.falsy THEN acc
    ELSE IF StripRaises(member.name) \/ StripRaises(member.id)
    THEN [acc EXCEPT !.error = TRUE]
    ELSE
    LET author_name  == GetStrip(member.name)
        author_email == GetStrip(member.id)
        dict == acc.dict
    IN  IF author_email /= << >> /\ author_name /= << >>
        THEN LET d1 == IF \E i \in DOMAIN dict : dict[i].email = author_email
                       THEN dict
                       ELSE Append(dict, [name |-> author_name,
                                          email |-> author_email,
                                          episode_count |-> 0,
                                          programs |-> {}])
             IN  [acc EXCEPT !.dict =
                    [i \in DOMAIN d1 |->
                        IF d1[i].email = author_email
                        THEN [d1[i] EXCEPT !.episode_count = @ + 1,
                                           !.programs = @ \cup {program_name}]
                        ELSE d1[i]]]
        ELSE acc

RECURSIVE BatchAddTeam(_, _, _)
BatchAddTeam(acc, team, program_name) ==
    IF team = << >> THEN acc
    ELSE BatchAddTeam(BatchAddMember(acc, Head(team), program_name),
                      Tail(team), program_name)

RECURSIVE BatchAddEpisodes(_, _, _)
BatchAddEpisodes(acc, episodes, program_name) ==
    IF episodes = << >> THEN acc
    ELSE BatchAddEpisodes(BatchAddTeam(acc, Head(episodes).team, program_name),
                          Tail(episodes), program_name)

RECURSIVE BatchScan(_, _, _, _)
BatchScan(program_ids_, served, i, acc) ==
    IF i > Len(program_ids_) THEN acc
    ELSE IF ~InCache(served, program_ids_[i])
    THEN BatchScan(program_ids_, served, i + 1, acc)
    ELSE LET entry == CacheGet(served, program_ids_[i])
         IN  BatchScan(program_ids_, served, i + 1,
                       BatchAddEpisodes(acc, entry.episodes,
                                        entry.program_name))

\* The summaries carry the key as 'email'; it is kept in the id field here.
all_feeds_collect_all_authors(program_ids_, served) ==
    LET acc == BatchScan(program_ids_, served, 1, EmptyAcc)
    IN  IF acc.error THEN Raised
        ELSE Authors(SortByCountDesc(ToAuthorsList(acc.dict)))

\* ---- the specification: one function applied to one input ----

SelAuthors == {<<"a">>, <<"b">>}

InitSelect ==
    /\ FetchOff
    /\ AuthOff
    /\ AuthorsOff
    /\ MoreOff
    /\ DlOff
    /\ FeedOff
    /\ RunOff
    /\ sel_pc = "input"
    /\ sel_out = << >>
    /\ \/ \E eps \in ListsOver(IdentityEpisodes, MaxSelEpisodes) :
          \E arr \in Arrangements(eps) :
            /\ sel_program_ids = arr.program_ids
            /\ sel_cache = arr.cache
            /\ sel_author \in SelAuthors
            /\ sel_limit = MaxSelEpisodes
            /\ sel_include_exclusive = TRUE
       \/ \E eps \in ListsOver(DatedEpisodes, MaxSelEpisodes) :
          \E arr \in Arrangements(eps) :
            /\ sel_program_ids = arr.program_ids
            /\ sel_cache = arr.cache
            /\ sel_author = <<"a">>
            /\ sel_limit \in SelLimits
            /\ sel_include_exclusive \in BOOLEAN

Apply(name, out) ==
    /\ sel_pc = "input"
    /\ sel_pc' = name
    /\ sel_out' = out
    /\ UNCHANGED <<sel_program_ids, sel_cache, sel_author, sel_limit,
                   sel_include_exclusive>>
    /\ UNCHANGED <<fetchVars, authVars, resolveVars, authorsVars, feedVars,
                   runVars, dlVars, moreVars>>

SelectFromCache ==
    Apply("from_cache",
          collect_episodes_by_author_id_from_cache(
              sel_author, sel_cache, sel_limit, sel_include_exclusive))

SelectDirect ==
    Apply("direct",
          collect_episodes_by_author_id(
              sel_author, sel_program_ids, sel_cache, sel_limit,
              sel_include_exclusive))

SelectOptimized ==
    Apply("optimized",
          collect_episodes_by_author_optimized(
              sel_author, sel_program_ids, sel_cache, sel_limit,
              sel_include_exclusive))

AggregateById ==
    Apply("authors_by_id",
          collect_all_authors_for_selection(sel_program_ids, sel_cache))

AggregateListAuthors ==
    Apply("authors_list_authors",
          list_authors_collect_all_authors(sel_program_ids, sel_cache))

AggregateAllFeeds ==
    Apply("authors_all_feeds",
          all_feeds_collect_all_authors(sel_program_ids, sel_cache))

NextSelect ==
    \/ SelectFromCache
    \/ SelectDirect
    \/ SelectOptimized
    \/ AggregateById
    \/ AggregateListAuthors
    \/ AggregateAllFeeds

SpecSelect == InitSelect /\ [][NextSelect]_vars

(***************************************************************************)
(* Properties of SpecSelect                                                *)
(***************************************************************************)

\* Program ids of the list that the crawl got through to, in list order.
SelScannedIds ==
    SelectSeq(sel_program_ids, LAMBDA id : InCache(sel_cache, id))

\* The episodes an aggregation run over sel_program_ids goes through.
SelScanned ==
    Flatten([i \in DOMAIN SelScannedIds |->
                CacheGet(sel_cache, SelScannedIds[i]).episodes])

\* All episodes of the cache handed in.
SelCached ==
    Flatten([i \in DOMAIN sel_cache |-> sel_cache[i].episodes])

\* Trimmed emails of the team members of eps.
TrimmedEmails(eps) ==
    {member_email(eps[p[1]].team[p[2]]) : p \in Positions(eps)} \ {<< >>}

\* The summaries of list are the buckets of the memberships of eps under the
\* trimmed email (memberships without a name left out, as in C9).
AggregatedByTrimmedEmail(list, eps) ==
    /\ {list[i].id : i \in DOMAIN list} =
           {id \in TrimmedEmails(eps) : NamedMemberships(eps, id) /= {}}
    /\ \A i, j \in DOMAIN list : list[i].id = list[j].id => i = j
    /\ \A i \in DOMAIN list :
           list[i].episode_count =
               Cardinality(NamedMemberships(eps, list[i].id))

\* The episodes selected are those of eps with a team member whose trimmed
\* email is the identity.
SelectedByTrimmedEmail(selected, eps, identity) ==
    {selected[k].id : k \in DOMAIN selected} =
        {eps[k].id : k \in {n \in DOMAIN eps :
                               MatchByEmail(eps[n].team, identity) /= 0}}

\* C11: every implementation of author aggregation buckets the memberships
\* by trimmed email, and every implementation of per-author selection (with
\* exclusive episodes included and a limit that cuts nothing) returns exactly
\* the episodes that have a team member whose trimmed email is the identity.
C11_IdentityIsTrimmedEmail ==
    /\ sel_pc \in {"authors_by_id", "authors_list_authors",
                   "authors_all_feeds"} =>
           /\ ~sel_out.error
           /\ AggregatedByTrimmedEmail(sel_out.authors, SelScanned)
    /\ (/\ sel_pc \in {"from_cache", "direct", "optimized"}
        /\ sel_include_exclusive
        /\ sel_limit >= Len(SelCached)
        /\ ~sel_out.error) =>
           SelectedByTrimmedEmail(sel_out.episodes, SelCached, sel_author)

\* published_at of an episode, a missing or invalid timestamp read as epoch 0.
PublishedAtOrEpoch(e) ==
    IF e.publishedAt.kind = "int" THEN e.publishedAt.v ELSE 0

\* C12: every per-author selection returns without raising, returns at most
\* `limit` episodes, each with the identity in its team, none of them
\* exclusive unless include_exclusive is set, ordered by published_at
\* descending with episodes lacking a valid timestamp counted as epoch 0.
C12_SelectionFilteredSortedBounded ==
    sel_pc \in {"from_cache", "direct", "optimized"} =>
        /\ ~sel_out.error
        /\ Len(sel_out.episodes) <= sel_limit
        /\ \A k \in DOMAIN sel_out.episodes :
            /\ MatchByEmail(sel_out.episodes[k].team, sel_author) /= 0
            /\ IsFree(sel_out.episodes[k]) \/ sel_include_exclusive
        /\ \A i, j \in DOMAIN sel_out.episodes :
               i < j => PublishedAtOrEpoch(sel_out.episodes[i]) >=
                            PublishedAtOrEpoch(sel_out.episodes[j])

(***************************************************************************)
(* FeedBuilder: generate_rss_feed and generate_author_rss_feed             *)
(***************************************************************************)

\* Most episodes in the list handed to a feed builder.
MaxFeedEpisodes == 2

\* Default of --max-episodes in generate_author_feed_by_id.
DEFAULT_MAX_EPISODES == 300

\* "".join(chars): the Python string a sequence of characters stands for.
RECURSIVE Text(_)
Text(chars) == IF chars = << >> THEN "" ELSE Head(chars) \o Text(Tail(chars))

\* f"radio357-{program_id}-{episode_id}"
ProgramGuid(program_id, episode_id) ==
    "radio357-" \o program_id \o "-" \o episode_id

\* f"radio357-author-{author_id}-{episode_id}"
AuthorGuid(author_id, episode_id) ==
    "radio357-author-" \o Text(author_id) \o "-" \o episode_id

\* The publish date: datetime.fromtimestamp(published_at / 1000) if
\* published_at = episode.get("publishedAt", 0) is an int, else
\* datetime.now().
PubDate(e) ==
    IF DateKey(e).kind = "int"
    THEN [clock |-> "timestamp", ms |-> DateKey(e).v]
    ELSE [clock |-> "now", ms |-> 0]

\* The item emitted for episode e.
Item(kind, owner, e) ==
    [episode_id |-> e.id,
     guid |-> IF kind = "program" THEN ProgramGuid(owner, e.id)
              ELSE AuthorGuid(owner, e.id),
     pubDate |-> PubDate(e)]

\* "for episode in episodes" with its two "continue" exits; feed holds the
\* items emitted and the two counters.
RECURSIVE BuildItems_no_filter(_, _, _, _, _, _)
BuildItems_no_filter(kind, owner, episodes, unresolved, include_exclusive, feed) ==
    IF episodes = << >> THEN feed
    ELSE LET e == Head(episodes)
             next ==
                 IF e.id \in unresolved
                 THEN [feed EXCEPT !.skipped_count = @ + 1]
                 ELSE [feed EXCEPT !.items = Append(@, Item(kind, owner, e)),
                                   !.added_count = @ + 1]
         IN  BuildItems_no_filter(kind, owner, Tail(episodes), unresolved,
                                  include_exclusive, next)

RECURSIVE BuildItems(_, _, _, _, _, _)
BuildItems(kind, owner, episodes, unresolved, include_exclusive, feed) ==
    IF episodes = << >> THEN feed
    ELSE LET e == Head(episodes)
             next ==
                 IF ~IsFree(e) /\ ~include_exclusive
                 THEN [feed EXCEPT !.skipped_count = @ + 1]
                 ELSE IF e.id \in unresolved
                 THEN [feed EXCEPT !.skipped_count = @ + 1]
                 ELSE [feed EXCEPT !.items = Append(@, Item(kind, owner, e)),
                                   !.added_count = @ + 1]
         IN  BuildItems(kind, owner, Tail(episodes), unresolved,
                        include_exclusive, next)

\* The feed document written by the builder.
BuildFeed(kind, owner, episodes, unresolved, include_exclusive) ==
    BuildItems(kind, owner, episodes, unresolved, include_exclusive,
               [built |-> TRUE, items |-> << >>, added_count |-> 0,
                skipped_count |-> 0])

\* Episodes as a feed builder can meet them.
FeedEpisodes ==
    {Episode(None, <<M_a>>, free, ts) :
        free \in {"true", "false", "absent"},
        ts \in {TsAbsent, Ts(0), Ts(2), TsStr}}

\* What the three selection functions hand to generate_author_rss_feed for
\* author "a" when the crawl delivered eps.
AuthorEpisodeLists(eps) ==
    LET outs ==
            UNION {{collect_episodes_by_author_id_from_cache(
                        <<"a">>, arr.cache, DEFAULT_MAX_EPISODES, TRUE),
                    collect_episodes_by_author_id(
                        <<"a">>, arr.program_ids, arr.cache,
                        DEFAULT_MAX_EPISODES, TRUE),
                    collect_episodes_by_author_optimized(
                        <<"a">>, arr.program_ids, arr.cache,
                        DEFAULT_MAX_EPISODES, TRUE)} :
                   arr \in Arrangements(eps)}
    IN  {out.episodes : out \in {o \in outs : ~o.error}}

EpisodeIdsOf(eps) == {eps[k].id : k \in DOMAIN eps}

InitFeed ==
    /\ FetchOff
    /\ AuthOff
    /\ AuthorsOff
    /\ MoreOff
    /\ DlOff
    /\ SelectOff
    /\ RunOff
    /\ fd_free_only = NoFeed
    /\ fd_all = NoFeed
    /\ \E eps \in ListsOver(FeedEpisodes, MaxFeedEpisodes) :
        /\ \/ /\ fd_kind = "program"
              /\ fd_owner = "p1"
              /\ fd_episodes = eps
           \/ /\ fd_kind = "author"
              /\ fd_owner = <<"a">>
              /\ fd_episodes \in AuthorEpisodeLists(eps)
        /\ fd_unresolved \in SUBSET EpisodeIdsOf(eps)

\* generate_rss_feed / generate_author_rss_feed with include_exclusive=False
GenerateFeedFreeOnly ==
    /\ fd_kind /= "off"
    /\ ~fd_free_only.built
    /\ fd_free_only' =
           BuildFeed(fd_kind, fd_owner, fd_episodes, fd_unresolved, FALSE)
    /\ UNCHANGED <<fd_kind, fd_owner, fd_episodes, fd_unresolved, fd_all>>
    /\ UNCHANGED <<fetchVars, authVars, resolveVars, authorsVars, selectVars,
                   runVars, dlVars, moreVars>>

\* ... and with include_exclusive=True
GenerateFeedAll ==
    /\ fd_kind /= "off"
    /\ ~fd_all.built
    /\ fd_all' =
           BuildFeed(fd_kind, fd_owner, fd_episodes, fd_unresolved, TRUE)
    /\ UNCHANGED <<fd_kind, fd_owner, fd_episodes, fd_unresolved,
                   fd_free_only>>
    /\ UNCHANGED <<fetchVars, authVars, resolveVars, authorsVars, selectVars,
                   runVars, dlVars, moreVars>>

NextFeed ==
    \/ GenerateFeedFreeOnly
    \/ GenerateFeedAll

SpecFeed == InitFeed /\ [][NextFeed]_vars

(***************************************************************************)
(* Properties of SpecFeed                                                  *)
(***************************************************************************)

\* The feeds built so far.
BuiltFeeds == {f \in {fd_free_only, fd_all} : f.built}

\* The episode an item was emitted for.
EpisodeOf(item) ==
    fd_episodes[CHOOSE k \in DOMAIN fd_episodes :
                    fd_episodes[k].id = item.episode_id]

\* C13: an item emitted for an episode whose publishedAt is missing or zero
\* carries the current wall-clock time as its publish date.
C13_MissingDateRendersNow ==
    \A f \in BuiltFeeds :
        \A k \in DOMAIN f.items :
            LET e == EpisodeOf(f.items[k])
            IN  (e.publishedAt.kind = "absent" \/ e.publishedAt = Ts(0)) =>
                    f.items[k].pubDate.clock = "now"

\* The items a feed has for exactly the episodes of eps that are free.
ItemsOfFree(eps) ==
    LET free == SelectSeq(eps, IsFree)
    IN  [k \in DOMAIN free |-> Item(fd_kind, fd_owner, free[k])]

\* C14: when every media URL resolves, the feed built without exclusive
\* content has an item for exactly the free episodes of the input, and every
\* one of its items is in the feed built from the same input with exclusive
\* content.
C14_FreeFeedIsFreeSubset ==
    (fd_free_only.built /\ fd_unresolved = {}) =>
        /\ fd_free_only.items = ItemsOfFree(fd_episodes)
        /\ fd_all.built =>
               \A i \in DOMAIN fd_free_only.items :
                   \E j \in DOMAIN fd_all.items :
                       fd_all.items[j] = fd_free_only.items[i]

\* Both feeds built from a list with one free and one exclusive episode.
C14_Witness ==
    /\ fd_free_only.built
    /\ fd_all.built
    /\ fd_unresolved = {}
    /\ Len(fd_episodes) = 2
    /\ Len(fd_free_only.items) = 1
    /\ Len(fd_all.items) = 2
    /\ fd_free_only.skipped_count = 1

\* C15: no two items of a generated feed carry the same guid.
C15_GuidsUniqueInFeed ==
    \A f \in BuiltFeeds :
        \A i, j \in DOMAIN f.items :
            f.items[i].guid = f.items[j].guid => i = j

(***************************************************************************)
(* Run: main() of generate_all_author_feeds.py and the interactive mode of *)
(* generate_author_feed_by_id.py                                           *)
(***************************************************************************)

\* Most episodes the content API holds over all programs.
MaxRunEpisodes == 2

\* --max-episodes of generate_all_author_feeds
DEFAULT_MAX_PER_AUTHOR == 50

M_b == MemberWithId(<<"B">>, <<"b">>, <<"b">>)

\* Episodes the API can hold during a run.
RunEpisodes ==
    {Episode(None, <<M_a>>, "true", Ts(0)),
     Episode(None, <<M_a>>, "true", Ts(2)),
     Episode(None, <<M_a_padded>>, "true", Ts(2)),
     Episode(None, <<M_b>>, "true", Ts(2)),
     Episode(None, <<M_b_null_name>>, "true", Ts(2))}

\* The episodes of the two programs: every split of a list of episodes.
Served ==
    UNION {{[p \in ProgramIds |->
                IF p = "p1" THEN SubSeq(eps, 1, k)
                ELSE SubSeq(eps, k + 1, Len(eps))] : k \in 0..Len(eps)} :
           eps \in ListsOver(RunEpisodes, MaxRunEpisodes)}

\* One entry of the record of the cache build: the program asked for,
\* whether get_program_info answered, and what
\* fetch_all_episodes_from_program returned.
Fetched(program_id, ok, episodes) ==
    [program_id |-> program_id, ok |-> ok, episodes |-> episodes]

\* fetch_all_episodes_from_program never raises: a failing page request
\* ends the loop with what was gathered before it.
FetchOutcomes(program_id) == {run_served[program_id], << >>}

\* A selection that sorts the cached lists themselves.
CacheAfterSelection_sorted_in_place(cache) ==
    [i \in DOMAIN cache |->
        [cache[i] EXCEPT !.episodes = SortByDateDesc(@)]]

\* The cache as a selection leaves it: the functions append the matching
\* episodes to a list of their own (author_episodes) and sort and slice that
\* list.
CacheAfterSelection(cache) == cache

\* Contents of an authors file: one or two author ids.
AuthorIdLists == UNION {[1..n -> SelAuthors] : n \in 1..2}

\* The dict main builds for one id of the authors file by counting, over
\* the cache, the episodes with a member whose trimmed email is the id.
AuthorFromFile(author_id, cache) ==
    LET cached == Flatten([i \in DOMAIN cache |-> cache[i].episodes])
        found == {i \in DOMAIN cache :
                     \E k \in DOMAIN cache[i].episodes :
                         MatchByEmail(cache[i].episodes[k].team, author_id) /= 0}
        author_name == OrEmpty(AuthorName(cached, author_id, Null))
    IN  [id |-> author_id,
         name |-> IF author_name = << >> THEN author_id ELSE author_name,
         episode_count |-> Len(MatchingByEmail(cached, author_id, TRUE)),
         programs |-> {cache[i].program_name : i \in found}]

\* "if episode_count > 0: authors.append({'id': author_id, ...})"
AuthorsFromFile(author_ids, cache) ==
    SelectSeq([k \in DOMAIN author_ids |-> AuthorFromFile(author_ids[k], cache)],
              LAMBDA a : a.episode_count > 0)

\* author_data['email'] can be read: the dicts of collect_all_authors have
\* the keys name, email, episode_count and programs, those built from the
\* authors file have id in the place of email.
HasEmailKey(script) == script /= "all_feeds_authors_file"

InitRun ==
    /\ FetchOff
    /\ AuthOff
    /\ AuthorsOff
    /\ MoreOff
    /\ DlOff
    /\ SelectOff
    /\ FeedOff
    /\ run_script \in {"all_feeds", "all_feeds_authors_file", "by_id"}
    /\ run_pc = "build"
    /\ run_program_ids \in ProgramIdLists \ {<< >>}
    /\ run_served \in Served
    /\ run_min_episodes \in {1, 2}
    /\ run_i = 1
    /\ run_cache = << >>
    /\ run_fetched = << >>
    /\ run_late_requests = 0
    /\ run_acc = EmptyAcc
    /\ run_authors = << >>
    /\ run_a = 1
    /\ run_feeds = << >>
    /\ success_count = 0
    /\ error_count = 0

RunFrame == UNCHANGED <<fetchVars, authVars, resolveVars, authorsVars,
                        selectVars, feedVars, dlVars, moreVars>>

\* One iteration of the loop of build_episodes_cache, or of
\* collect_all_authors_for_selection, which builds the same cache and
\* authors_dict with it.
RunBuildProgram ==
    /\ run_pc = "build"
    /\ run_i <= Len(run_program_ids)
    /\ LET program_id == run_program_ids[run_i]
       IN  \E info \in {"ok", "exception"} :
            IF info = "exception"
            THEN /\ run_fetched' =
                        Append(run_fetched, Fetched(program_id, FALSE, << >>))
                 /\ UNCHANGED <<run_cache, run_acc>>
            ELSE \E episodes \in FetchOutcomes(program_id) :
                 /\ run_fetched' =
                        Append(run_fetched, Fetched(program_id, TRUE, episodes))
                 /\ run_cache' = CachePut(run_cache, Entry(program_id, episodes))
                 /\ run_acc' =
                        IF run_script = "by_id"
                        THEN [run_acc EXCEPT !.dict =
                                AddEpisodes(@, Inject(episodes, program_id),
                                            ProgramInfo[program_id].name)]
                        ELSE run_acc
    /\ run_i' = run_i + 1
    /\ UNCHANGED <<run_script, run_pc, run_program_ids, run_served,
                   run_min_episodes, run_late_requests, run_authors, run_a,
                   run_feeds, success_count, error_count>>
    /\ RunFrame

\* The cache build returns.  generate_all_author_feeds goes on to
\* collect_all_authors(program_ids) or, with --authors-file, builds the
\* author list from the file and the cache; generate_author_feed_by_id has the
\* sorted list of authors and leaves with 1 when it is empty.
RunBuildDone ==
    /\ run_pc = "build"
    /\ run_i > Len(run_program_ids)
    /\ IF run_script = "all_feeds"
       THEN /\ run_pc' = "collect"
            /\ run_authors' = run_authors
       ELSE IF run_script = "all_feeds_authors_file"
       THEN /\ \E author_ids \in AuthorIdLists :
                 run_authors' =
                     SelectSeq(AuthorsFromFile(author_ids, run_cache),
                               LAMBDA a : a.episode_count >= run_min_episodes)
            /\ run_pc' = "authors"
       ELSE /\ run_authors' = SortByCountDesc(ToAuthorsList(run_acc.dict))
            /\ run_pc' = IF run_authors' = << >> THEN "done" ELSE "choose"
    /\ run_i' = 1
    /\ run_acc' = EmptyAcc
    /\ UNCHANGED <<run_script, run_program_ids, run_served, run_min_episodes,
                   run_cache, run_fetched, run_late_requests, run_a,
                   run_feeds, success_count, error_count>>
    /\ RunFrame

\* One iteration of the loop of generate_all_author_feeds.collect_all_authors:
\* the program's metadata and episodes are requested again.  An exception
\* in the member loop leaves collect_all_authors and main.
RunCollectProgram ==
    /\ run_pc = "collect"
    /\ run_i <= Len(run_program_ids)
    /\ LET program_id == run_program_ids[run_i]
       IN  \E info \in {"ok", "exception"} :
            IF info = "exception"
            THEN /\ run_late_requests' = run_late_requests + 1
                 /\ UNCHANGED <<run_acc, run_pc>>
            ELSE \E episodes \in FetchOutcomes(program_id) :
                 /\ run_late_requests' = run_late_requests + 2
                 /\ run_acc' = BatchAddEpisodes(run_acc, episodes,
                                                ProgramInfo[program_id].name)
                 /\ run_pc' = IF run_acc'.error THEN "crashed" ELSE run_pc
    /\ run_i' = run_i + 1
    /\ UNCHANGED <<run_script, run_program_ids, run_served, run_min_episodes,
                   run_cache, run_fetched, run_authors, run_a, run_feeds,
                   success_count, error_count>>
    /\ RunFrame

\* collect_all_authors returns the sorted list;
\* authors_to_generate = [a for a in authors
\*                        if a['episode_count'] >= args.min_episodes]
RunCollectDone ==
    /\ run_pc = "collect"
    /\ run_i > Len(run_program_ids)
    /\ run_authors' =
           SelectSeq(SortByCountDesc(ToAuthorsList(run_acc.dict)),
                     LAMBDA a : a.episode_count >= run_min_episodes)
    /\ run_pc' = "authors"
    /\ UNCHANGED <<run_script, run_program_ids, run_served, run_min_episodes,
                   run_i, run_cache, run_fetched, run_late_requests, run_acc,
                   run_a, run_feeds, success_count, error_count>>
    /\ RunFrame

\* One iteration of "for i, author_data in enumerate(authors_to_generate, 1)";
\* author_data['email'] raises KeyError for a dict without that key.
RunAuthor ==
    /\ run_pc = "authors"
    /\ run_a <= Len(run_authors)
    /\ LET author_email == run_authors[run_a].id
           out == collect_episodes_by_author_optimized(
                      author_email, run_program_ids, run_cache,
                      DEFAULT_MAX_PER_AUTHOR, TRUE)
       IN  IF ~HasEmailKey(run_script)
           THEN /\ run_pc' = "crashed"
                /\ UNCHANGED <<run_cache, run_feeds, success_count,
                               error_count>>
           ELSE
           /\ run_cache' = CacheAfterSelection(run_cache)
           /\ IF out.error
              THEN /\ run_pc' = "crashed"
                   /\ UNCHANGED <<run_feeds, success_count, error_count>>
              ELSE IF out.episodes = << >>
              THEN /\ error_count' = error_count + 1
                   /\ UNCHANGED <<run_pc, run_feeds, success_count>>
              ELSE /\ run_feeds' = Append(run_feeds, author_email)
                   /\ \E feed \in {"written", "exception"} :
                        IF feed = "written"
                        THEN /\ success_count' = success_count + 1
                             /\ error_count' = error_count
                        ELSE /\ error_count' = error_count + 1
                             /\ success_count' = success_count
                   /\ run_pc' = run_pc
    /\ run_a' = run_a + 1
    /\ UNCHANGED <<run_script, run_program_ids, run_served, run_min_episodes,
                   run_i, run_fetched, run_late_requests, run_acc,
                   run_authors>>
    /\ RunFrame

\* The loop is over: the summary is printed and main returns 0.
RunAuthorsDone ==
    /\ run_pc = "authors"
    /\ run_a > Len(run_authors)
    /\ run_pc' = "done"
    /\ UNCHANGED <<run_script, run_program_ids, run_served, run_min_episodes,
                   run_i, run_cache, run_fetched, run_late_requests, run_acc,
                   run_authors, run_a, run_feeds, success_count, error_count>>
    /\ RunFrame

\* The interactive choice of generate_author_feed_by_id: an empty or wrong
\* input leaves main, a number selects the author whose episodes are
\* gathered from the cache and written as a feed.
RunChoose ==
    /\ run_pc = "choose"
    /\ \E choice \in 0..Len(run_authors) :
        IF choice = 0
        THEN /\ run_pc' = "done"
             /\ UNCHANGED <<run_cache, run_feeds, run_a>>
        ELSE LET author_id == run_authors[choice].id
                 out == collect_episodes_by_author_id_from_cache(
                            author_id, run_cache, DEFAULT_MAX_EPISODES, TRUE)
             IN  /\ run_cache' = CacheAfterSelection(run_cache)
                 /\ run_a' = choice
                 /\ IF out.error
                    THEN /\ run_pc' = "crashed"
                         /\ run_feeds' = run_feeds
                    ELSE IF out.episodes = << >>
                    THEN /\ run_pc' = "done"
                         /\ run_feeds' = run_feeds
                    ELSE /\ run_feeds' = Append(run_feeds, author_id)
                         /\ run_pc' \in {"done", "crashed"}
    /\ UNCHANGED <<run_script, run_program_ids, run_served, run_min_episodes,
                   run_i, run_fetched, run_late_requests, run_acc,
                   run_authors, success_count, error_count>>
    /\ RunFrame

NextRun ==
    \/ RunBuildProgram
    \/ RunBuildDone
    \/ RunCollectProgram
    \/ RunCollectDone
    \/ RunAuthor
    \/ RunAuthorsDone
    \/ RunChoose

SpecRun == InitRun /\ [][NextRun]_vars

(***************************************************************************)
(* Properties of SpecRun                                                   *)
(***************************************************************************)

\* The programs whose metadata request succeeded during the cache build.
BuiltOk == {k \in DOMAIN run_fetched : run_fetched[k].ok}

\* What the last successful visit of program_id fetched.
LastFetched(program_id) ==
    LET visits == {k \in BuiltOk : run_fetched[k].program_id = program_id}
    IN  run_fetched[CHOOSE k \in visits : \A j \in visits : j <= k].episodes

\* An episode without the three injected fields.
AsFetched(e) ==
    [e EXCEPT !.program_name = None, !.program_id = None,
              !.program_image = None]

\* C16: the cache build visits every program of the list whatever metadata
\* requests fail; at every moment the keys of the cache are exactly the ids
\* whose metadata request succeeded, each entry holds the program's name and
\* image and the episodes fetched for it, and every cached episode carries
\* the name, id and image of its entry.
C16_CacheHoldsFetchedPrograms ==
    /\ run_pc = "build" =>
           /\ Len(run_fetched) = run_i - 1
           /\ \A k \in DOMAIN run_fetched :
                  run_fetched[k].program_id = run_program_ids[k]
    /\ run_pc \notin {"off", "build"} =>
           [k \in DOMAIN run_fetched |-> run_fetched[k].program_id]
               = run_program_ids
    /\ {run_cache[i].program_id : i \in DOMAIN run_cache}
           = {run_fetched[k].program_id : k \in BuiltOk}
    /\ \A i, j \in DOMAIN run_cache :
           run_cache[i].program_id = run_cache[j].program_id => i = j
    /\ \A i \in DOMAIN run_cache :
        LET entry == run_cache[i]
        IN  /\ entry.program_name = ProgramInfo[entry.program_id].name
            /\ entry.program_image = ProgramInfo[entry.program_id].image
            /\ [k \in DOMAIN entry.episodes |-> AsFetched(entry.episodes[k])]
                   = LastFetched(entry.program_id)
            /\ \A k \in DOMAIN entry.episodes :
                   /\ entry.episodes[k].program_name = entry.program_name
                   /\ entry.episodes[k].program_id = entry.program_id
                   /\ entry.episodes[k].program_image = entry.program_image

\* The build is over; one metadata request failed and another program is
\* cached with its episodes.
C16_Witness ==
    /\ run_pc \notin {"off", "build"}
    /\ \E k \in DOMAIN run_fetched : ~run_fetched[k].ok
    /\ \E i \in DOMAIN run_cache : run_cache[i].episodes /= << >>

\* A step taken after the cache build leaves the cache as it is.
CacheKept ==
    run_pc \in {"collect", "authors", "choose"} => run_cache' = run_cache

\* C17: once the cache is built, no step of the run changes it: neither the
\* aggregation of authors, nor the selection of an author's episodes, nor
\* the generation of a feed, however many authors are processed.
C17_SelectionLeavesCache == [][CacheKept]_vars

\* Two authors had their episodes selected and their feeds generated from a
\* cache holding a program whose episodes are not in date order.
C17_Witness ==
    /\ run_pc = "authors"
    /\ run_a > 2
    /\ Len(run_feeds) >= 2
    /\ \E i \in DOMAIN run_cache :
           SortByDateDesc(run_cache[i].episodes) /= run_cache[i].episodes

\* C18: after the cache build no program metadata and no episode page is
\* requested again.
C18_NoCrawlAfterCacheBuilt == run_late_requests = 0

(***************************************************************************)
(* Downloader: the episode loops of download_from_feed.py (main) and       *)
(* podcaster357.py (download_program_podcasts) with download_file          *)
(***************************************************************************)

\* Most episodes of one download run, most chunks of one response.
MaxDlEpisodes == 2
MaxChunks == 2

\* "if file_size > 100000" and iter_content(chunk_size=8192)
SIZE_SANITY == 100000
CHUNK_SIZE == 8192

Exists(file) == file.content /= "none"

\* Files a run can find: none, one just failing the size check and one
\* just passing it.
OldFiles == {NoFile, File("old", SIZE_SANITY), File("old", SIZE_SANITY + 1)}

\* Titles: two that differ in a character file names may not hold, and (in
\* a feed) an item whose <title> has no text.
T_slash == <<"a", "/", "b">>
T_under == <<"a", "_", "b">>

\* f"{idx:03d}"
Pad3(n) ==
    IF n < 10 THEN "00" \o ToString(n)
    ELSE IF n < 100 THEN "0" \o ToString(n) ELSE ToString(n)

\* sanitize_filename: every character of '<>:"/\|?*' becomes "_", the
\* result is cut to 200 characters.
sanitize_filename(chars) ==
    SliceTo([i \in DOMAIN chars |->
                IF chars[i] \in {"<", ">", ":", "\"", "/", "\\", "|", "?", "*"}
                THEN "_" ELSE chars[i]], 200)

\* re.sub(r'[\s_]+', '_', ...): a run of blanks and underscores becomes one
\* underscore.
RECURSIVE Collapse(_)
Collapse(chars) ==
    IF chars = << >> THEN << >>
    ELSE IF Head(chars) \in {" ", "_"}
    THEN IF Len(chars) >= 2 /\ chars[2] \in {" ", "_"}
         THEN Collapse(Tail(chars))
         ELSE <<"_">> \o Collapse(Tail(chars))
    ELSE <<Head(chars)>> \o Collapse(Tail(chars))

\* safe_title of get_filename_from_url: characters other than word
\* characters, blanks, "-" and "." become "_", runs are collapsed, the
\* result is cut to 150 characters.
SafeTitle(title) ==
    SliceTo(Collapse([i \in DOMAIN title |->
                         IF title[i] \in {"/", ":", "?", "*", "<", ">", "|"}
                         THEN "_" ELSE title[i]]), 150)

\* A media URL: the stem and the extension of the last segment of its path;
\* no extension stands for a generic endpoint ("download", "url", no dot).
Url(stem, ext) == [stem |-> stem, ext |-> ext]

\* is_m3u8_url(url) and "'.m3u8' in url"
is_m3u8_url(url) == url.ext = "m3u8"

\* get_filename_from_url(url, title, index)
get_filename_from_url(url, title, index) ==
    IF url.ext = ""
    THEN IF title /= Null
         THEN Text(sanitize_filename(SafeTitle(title) \o <<".", "mp3">>))
         ELSE "episode_" \o Pad3(index) \o ".mp3"
    ELSE Text(sanitize_filename(url.stem)) \o ".mp3"

\* filename of download_program_podcasts: the date when publishedAt gives
\* one, the position in the list otherwise.
ProgramFilename(date_str, title, idx) ==
    (IF date_str /= "" THEN date_str ELSE Pad3(idx))
        \o "_" \o Text(sanitize_filename(title)) \o ".mp3"

\* The URL the gateway hands out for the episode at position idx: a name of
\* its own, direct files and segmented streams taking turns.
ApiUrls(idx) ==
    {Url(<<"g", ToString(idx)>>, IF idx % 2 = 1 THEN "mp3" ELSE "m3u8")}

\* Episodes of a feed (title and enclosure URL) and of a program (title and
\* the date taken from publishedAt).  Every episode has a title text: the
\* loops slice or sanitize the title before anything else.
DlEpisodes(script) ==
    IF script = "feed"
    THEN {[title |-> T_slash, url |-> Url(<< >>, ""), date_str |-> ""],
          [title |-> T_under, url |-> Url(<< >>, ""), date_str |-> ""],
          [title |-> T_under, url |-> Url(<<"b">>, "mp3"), date_str |-> ""],
          [title |-> T_slash, url |-> Url(<<"a">>, "mp3"), date_str |-> ""],
          [title |-> T_slash, url |-> Url(<<"a">>, "m3u8"), date_str |-> ""]}
    ELSE {[title |-> t, url |-> Url(<< >>, ""), date_str |-> d] :
             t \in {T_slash, T_under}, d \in {"", "2024-01-01"}}

\* Lists of distinct episodes.
DlEpisodeLists(script) ==
    UNION {{l \in [1..n -> DlEpisodes(script)] :
               \A i, j \in 1..n : l[i] = l[j] => i = j} :
           n \in 1..MaxDlEpisodes}

\* output_path of the episode at position idx when url is downloaded.
OutputPath(script, episode, url, idx) ==
    IF script = "feed" THEN get_filename_from_url(url, episode.title, idx)
    ELSE ProgramFilename(episode.date_str, episode.title, idx)

\* The URLs the episode at position idx can be downloaded from.
DownloadUrls(episode, idx) == {episode.url} \cup ApiUrls(idx)

\* Every path a run over episodes can write to.
Paths(script, episodes) ==
    UNION {{OutputPath(script, episodes[k], url, k) :
               url \in DownloadUrls(episodes[k], k)} : k \in DOMAIN episodes}

\* The output directory before the run: files at some of the paths the
\* episodes' own URLs map to.
Directories(script, episodes) ==
    LET own == {OutputPath(script, episodes[k], episodes[k].url, k) :
                   k \in DOMAIN episodes}
    IN  {[p \in Paths(script, episodes) |->
             IF p \in own THEN g[p] ELSE NoFile] :
            g \in [own -> IF script = "feed"
                          THEN {NoFile, File("old", SIZE_SANITY + 1)}
                          ELSE OldFiles]}

\* Handlers that leave the file where it is.
HandleError_keeps_file(files, path) == files

\* "if output_path.exists(): output_path.unlink()" of the except handlers
HandleError(files, path) == [files EXCEPT ![path] = NoFile]

\* The size test alone, whatever the script and args.overwrite.
Skips_only_size(script, overwrite, file) ==
    Exists(file) /\ file.size > SIZE_SANITY

\* The tests in front of the download:
\*   download_from_feed: output_path.exists() and not args.overwrite
\*   podcaster357:       output_path.exists() and file_size > 100000
Skips(script, overwrite, file) ==
    IF script = "feed" THEN Exists(file) /\ ~overwrite
    ELSE Exists(file) /\ file.size > SIZE_SANITY

\* One entry of the record of a run: what happened to episode idx.
Logged(idx, path, kind, outcome, error_at, before, after) ==
    [idx |-> idx, path |-> path, kind |-> kind, outcome |-> outcome,
     error_at |-> error_at, before |-> before, after |-> after]

InitDownload ==
    /\ FetchOff
    /\ AuthOff
    /\ AuthorsOff
    /\ MoreOff
    /\ SelectOff
    /\ FeedOff
    /\ RunOff
    /\ dl_script \in {"feed", "program"}
    /\ dl_overwrite \in (IF dl_script = "feed" THEN BOOLEAN ELSE {FALSE})
    /\ dl_episodes \in DlEpisodeLists(dl_script)
    /\ dl_files \in Directories(dl_script, dl_episodes)
    /\ dl_idx = 1
    /\ dl_pc = "loop"
    /\ dl_kind = "none"
    /\ dl_chunks = 0
    /\ dl_path = ""
    /\ dl_auth \in (IF dl_script = "feed" THEN BOOLEAN ELSE {FALSE})
    /\ dl_before = NoFile
    /\ dl_log = << >>
    /\ dl_success_count = 0
    /\ dl_skipped_count = 0
    /\ dl_error_count = 0
    /\ dl_exclusive_count = 0

DlFrame == UNCHANGED <<fetchVars, authVars, resolveVars, authorsVars,
                       selectVars, feedVars, runVars, moreVars>>

\* A loop that a failed download ends.
EndIteration_stops_on_failure(outcome, error_at, files) ==
    /\ dl_files' = files
    /\ dl_log' = Append(dl_log, Logged(dl_idx, dl_path, dl_kind, outcome,
                                       error_at, dl_before, files[dl_path]))
    /\ dl_idx' = dl_idx + 1
    /\ dl_pc' = IF outcome = "failed" THEN "done" ELSE "loop"
    /\ dl_kind' = "none"
    /\ dl_chunks' = 0
    /\ dl_path' = ""
    /\ dl_before' = NoFile
    /\ dl_success_count' =
           dl_success_count + (IF outcome = "downloaded" THEN 1 ELSE 0)
    /\ dl_error_count' =
           dl_error_count + (IF outcome = "failed" THEN 1 ELSE 0)
    /\ UNCHANGED <<dl_skipped_count, dl_exclusive_count>>

\* The end of one iteration: the record is extended and the loop moves on.
EndIteration(outcome, error_at, files) ==
    /\ dl_files' = files
    /\ dl_log' = Append(dl_log, Logged(dl_idx, dl_path, dl_kind, outcome,
                                       error_at, dl_before, files[dl_path]))
    /\ dl_idx' = dl_idx + 1
    /\ dl_pc' = "loop"
    /\ dl_kind' = "none"
    /\ dl_chunks' = 0
    /\ dl_path' = ""
    /\ dl_before' = NoFile
    /\ dl_success_count' =
           dl_success_count + (IF outcome = "downloaded" THEN 1 ELSE 0)
    /\ dl_error_count' =
           dl_error_count + (IF outcome = "failed" THEN 1 ELSE 0)
    /\ UNCHANGED <<dl_skipped_count, dl_exclusive_count>>

\* An iteration that ends before a download is started.
NoDownload(path, outcome, files) ==
    /\ dl_files' = files
    /\ dl_log' = Append(dl_log, Logged(dl_idx, path, "none", outcome, "",
                                       dl_files[path], files[path]))
    /\ dl_idx' = dl_idx + 1
    /\ dl_skipped_count' =
           dl_skipped_count + (IF outcome = "skipped" THEN 1 ELSE 0)
    /\ dl_exclusive_count' =
           dl_exclusive_count + (IF outcome = "exclusive" THEN 1 ELSE 0)
    /\ dl_error_count' =
           dl_error_count + (IF outcome = "failed" THEN 1 ELSE 0)
    /\ UNCHANGED <<dl_pc, dl_kind, dl_path, dl_before>>

\* The call of download_file / download_m3u8_file for url.
StartDownload(path, url, files) ==
    /\ dl_files' = files
    /\ dl_pc' = "request"
    /\ dl_kind' = IF is_m3u8_url(url) THEN "hls" ELSE "direct"
    /\ dl_path' = path
    /\ dl_before' = dl_files[path]
    /\ UNCHANGED <<dl_log, dl_idx, dl_skipped_count, dl_error_count,
                   dl_exclusive_count>>

\* The head of one iteration of download_from_feed, up to the call of
\* download_file or download_m3u8_file: with a session the gateway is asked
\* for the URL and the URL of the feed is used when it gives none; then the
\* file name is made and the existing file tested.
FeedStart ==
    /\ dl_script = "feed"
    /\ \E download_url \in
              {dl_episodes[dl_idx].url}
                  \cup (IF dl_auth THEN ApiUrls(dl_idx) ELSE {}) :
        LET path == OutputPath("feed", dl_episodes[dl_idx], download_url,
                               dl_idx)
        IN  IF Skips("feed", dl_overwrite, dl_files[path])
            THEN NoDownload(path, "skipped", dl_files)
            ELSE StartDownload(path, download_url, dl_files)

\* The head of one iteration of download_program_podcasts: the file name,
\* the test of the existing file with the removal of one that is too small,
\* and get_audio_url.
ProgramStart ==
    /\ dl_script = "program"
    /\ LET path == OutputPath("program", dl_episodes[dl_idx],
                              dl_episodes[dl_idx].url, dl_idx)
           removed == [dl_files EXCEPT ![path] = NoFile]
       IN  IF Skips("program", dl_overwrite, dl_files[path])
           THEN NoDownload(path, "skipped", dl_files)
           ELSE \E answer \in {"url", "needs_auth", "none"} :
                IF answer = "needs_auth"
                THEN NoDownload(path, "exclusive", removed)
                ELSE IF answer = "none"
                THEN NoDownload(path, "failed", removed)
                ELSE \E audio_url \in ApiUrls(dl_idx) :
                         StartDownload(path, audio_url, removed)

DlStart ==
    /\ dl_pc = "loop"
    /\ dl_idx <= Len(dl_episodes)
    /\ (FeedStart \/ ProgramStart)
    /\ UNCHANGED <<dl_script, dl_overwrite, dl_episodes, dl_chunks, dl_auth,
                   dl_success_count>>
    /\ DlFrame

\* download_file: requests.get(url, stream=True) and raise_for_status().
\* A good answer opens output_path with 'wb', which empties it.
DlRequest ==
    /\ dl_pc = "request"
    /\ dl_kind = "direct"
    /\ \E answer \in {"ok", "http_error", "transport_error"} :
        IF answer = "ok"
        THEN /\ dl_files' = [dl_files EXCEPT ![dl_path] = File("partial", 0)]
             /\ dl_pc' = "writing"
             /\ UNCHANGED <<dl_log, dl_idx, dl_kind, dl_chunks, dl_path,
                            dl_before, dl_success_count, dl_skipped_count,
                            dl_error_count, dl_exclusive_count>>
        ELSE EndIteration("failed", "request", HandleError(dl_files, dl_path))
    /\ UNCHANGED <<dl_script, dl_overwrite, dl_episodes, dl_auth>>
    /\ DlFrame

\* "for chunk in resp.iter_content(chunk_size=8192): f.write(chunk)"
DlChunk ==
    /\ dl_pc = "writing"
    /\ dl_chunks < MaxChunks
    /\ dl_files' = [dl_files EXCEPT ![dl_path].size = @ + CHUNK_SIZE]
    /\ dl_chunks' = dl_chunks + 1
    /\ UNCHANGED <<dl_script, dl_overwrite, dl_episodes, dl_idx, dl_pc,
                   dl_kind, dl_path, dl_auth, dl_before, dl_log, dl_success_count,
                   dl_skipped_count, dl_error_count, dl_exclusive_count>>
    /\ DlFrame

\* The connection breaks while the body is read.
DlChunkError ==
    /\ dl_pc = "writing"
    /\ EndIteration("failed", "writing", HandleError(dl_files, dl_path))
    /\ UNCHANGED <<dl_script, dl_overwrite, dl_episodes, dl_auth>>
    /\ DlFrame

\* The body is read to its end and the file is closed.
DlEndOfStream ==
    /\ dl_pc = "writing"
    /\ dl_pc' = "finish"
    /\ UNCHANGED <<dl_script, dl_overwrite, dl_episodes, dl_files, dl_idx,
                   dl_kind, dl_chunks, dl_path, dl_auth, dl_before, dl_log, dl_success_count,
                   dl_skipped_count, dl_error_count, dl_exclusive_count>>
    /\ DlFrame

\* The statements after the with block (output_path.stat(), print) and
\* "return True"; an exception raised there reaches the same handler.
DlFinish ==
    /\ dl_pc = "finish"
    /\ \E end \in {"ok", "exception"} :
        IF end = "ok"
        THEN EndIteration("downloaded", "",
                          [dl_files EXCEPT ![dl_path].content = "new"])
        ELSE EndIteration("failed", "finish", HandleError(dl_files, dl_path))
    /\ UNCHANGED <<dl_script, dl_overwrite, dl_episodes, dl_auth>>
    /\ DlFrame

\* download_m3u8_file / download_hls_stream: without the external tool
\* nothing is touched; the tool either leaves a finished file or fails, and
\* then what it left is removed.
DlHls ==
    /\ dl_pc = "request"
    /\ dl_kind = "hls"
    /\ \E tool \in {"missing", "ok", "error"} :
        IF tool = "missing"
        THEN EndIteration("failed", "tool", dl_files)
        ELSE IF tool = "ok"
        THEN EndIteration("downloaded", "",
                          [dl_files EXCEPT ![dl_path] = File("new", CHUNK_SIZE)])
        ELSE EndIteration("failed", "hls", HandleError(dl_files, dl_path))
    /\ UNCHANGED <<dl_script, dl_overwrite, dl_episodes, dl_auth>>
    /\ DlFrame

\* The loop is over and the summary is printed.
DlDone ==
    /\ dl_pc = "loop"
    /\ dl_idx > Len(dl_episodes)
    /\ dl_pc' = "done"
    /\ UNCHANGED <<dl_script, dl_overwrite, dl_episodes, dl_files, dl_idx,
                   dl_kind, dl_chunks, dl_path, dl_auth, dl_before, dl_log, dl_success_count,
                   dl_skipped_count, dl_error_count, dl_exclusive_count>>
    /\ DlFrame

NextDownload ==
    \/ DlStart
    \/ DlRequest
    \/ DlChunk
    \/ DlChunkError
    \/ DlEndOfStream
    \/ DlFinish
    \/ DlHls
    \/ DlDone

SpecDownload == InitDownload /\ [][NextDownload]_vars

(***************************************************************************)
(* Properties of SpecDownload                                              *)
(***************************************************************************)

\* The entries of the record for direct downloads that met an error.
FailedDirect ==
    {k \in DOMAIN dl_log :
        /\ dl_log[k].kind = "direct"
        /\ dl_log[k].error_at \in {"request", "writing", "finish"}}

\* The iterations counted in each way.
CountOutcome(outcome) ==
    Cardinality({k \in DOMAIN dl_log : dl_log[k].outcome = outcome})

\* C19: a direct download that meets an error at the request, while the body
\* is written, or after the body is written is reported as failed, and its
\* destination path holds no file when download_file returns.
C19_FailedDownloadLeavesNoFile ==
    /\ \A k \in FailedDirect :
           /\ dl_log[k].outcome = "failed"
           /\ dl_log[k].after = NoFile
    /\ dl_error_count = CountOutcome("failed")

\* One direct download failed while its body was written, another failed
\* at the request or after the body.
C19_Witness ==
    /\ \E k \in FailedDirect : dl_log[k].error_at = "writing"
    /\ \E k \in FailedDirect : dl_log[k].error_at \in {"request", "finish"}

\* C20: an episode whose destination file exists is skipped when overwrite
\* is off (download_from_feed) or the file passes the size check
\* (podcaster357): no download is started, the file stays as it is and the
\* episode is counted as skipped; every other episode is not skipped.
C20_ExistingFileIsSkipped ==
    /\ \A k \in DOMAIN dl_log :
        LET entry == dl_log[k]
            kept  == /\ entry.before.content /= "none"
                     /\ IF dl_script = "feed" THEN ~dl_overwrite
                        ELSE entry.before.size > SIZE_SANITY
        IN  IF kept
            THEN /\ entry.outcome = "skipped"
                 /\ entry.kind = "none"
                 /\ entry.after = entry.before
            ELSE entry.outcome /= "skipped"
    /\ dl_skipped_count = CountOutcome("skipped")

\* A run skipped one episode whose file existed and downloaded again an
\* episode whose file existed too.
C20_Witness ==
    /\ \E k \in DOMAIN dl_log :
           /\ dl_log[k].outcome = "skipped"
           /\ dl_log[k].before.content = "old"
    /\ \E k \in DOMAIN dl_log :
           /\ dl_log[k].outcome = "downloaded"
           /\ dl_log[k].before.content = "old"

C26_FailedDownloadKeepsOldFile ==
    \A k \in DOMAIN dl_log :
        (/\ dl_script = "feed"
         /\ dl_log[k].outcome = "failed"
         /\ Exists(dl_log[k].before))
            => dl_log[k].after = dl_log[k].before

\* C27: within one run two distinct episodes of the list are never given
\* the same destination path.
C27_DistinctEpisodesDistinctPaths ==
    \A j, k \in DOMAIN dl_log :
        dl_episodes[j] /= dl_episodes[k] => dl_log[j].path /= dl_log[k].path

(***************************************************************************)
(* Session: the login block of each main and the media-URL requests of the *)
(* run that follows it                                                     *)
(***************************************************************************)

\* Episodes a run goes through.
MaxSesEpisodes == 2

\* Token files a run can start with.
SesFiles ==
    {AbsentFile, CorruptFile}
        \cup {JsonFile(a, r) : a \in TokenValues, r \in TokenValues}

\* The auth object a main hands on after its login block, TRUE for the Auth
\* object and FALSE for None.  A session that keeps the object after a
\* failed or skipped login:
AuthAfter_keeps_session(script, outcome) == TRUE

\* generate_rss_feed sets auth = None when --login failed, podcaster357 when
\* --no-login was given or prompt_login() returned False; download_from_feed
\* keeps its Auth object.
AuthAfter(script, outcome) ==
    IF script \in {"rss", "pod"} /\ outcome \in {"failed", "skipped"}
    THEN FALSE
    ELSE TRUE

\* The end of the login block.
SesFinishLogin(outcome, a, r) ==
    /\ ses_login' = outcome
    /\ ses_access' = a
    /\ ses_refresh' = r
    /\ ses_auth' = AuthAfter(ses_script, outcome)
    /\ ses_pc' = "run"

\* auth.login(email, password) called from a main: True after save_tokens
\* on a 200 answer with a JSON object, False on anything else, exceptions
\* included, with the tokens left as they were.
SesLoginAttempt ==
    \E resp \in IdentityResponses :
        IF resp.status = "200" /\ resp.body.kind = "json"
        THEN SesFinishLogin("ok", resp.body.accessToken,
                            resp.body.refreshToken)
        ELSE SesFinishLogin("failed", ses_access, ses_refresh)

\* Auth.refresh() on the tokens a, r answered by resp.
SesRefresh(a, r, resp) ==
    IF Truthy(r) /\ resp.status = "200" /\ resp.body.kind = "json"
    THEN [ok |-> TRUE, access |-> resp.body.accessToken,
          refresh |-> resp.body.refreshToken]
    ELSE [ok |-> FALSE, access |-> a, refresh |-> r]

InitSession ==
    /\ EarlierOff
    /\ ProgramsOff
    /\ BatchOff
    /\ ses_script \in {"rss", "pod", "dl"}
    /\ ses_pc = "start"
    /\ ses_file \in SesFiles
    /\ ses_access = load_tokens(ses_file)[1]
    /\ ses_refresh = load_tokens(ses_file)[2]
    /\ ses_auth = TRUE
    /\ ses_login = "none"
    /\ ses_i = 0
    /\ ses_requests = << >>

SesFrame == UNCHANGED <<fetchVars, authVars, resolveVars, authorsVars, selectVars, feedVars, runVars, dlVars, programsVars, batchVars>>

\* The login block of main: generate_rss_feed logs in with --login only;
\* podcaster357 skips with --no-login and prompts when no access token was
\* loaded; download_from_feed asks whether to log in when none was loaded.
SesStart ==
    /\ ses_pc = "start"
    /\ \E option \in BOOLEAN, entered \in BOOLEAN :
        IF ses_script = "rss"
        THEN IF option
             THEN SesLoginAttempt
             ELSE SesFinishLogin("not_asked", ses_access, ses_refresh)
        ELSE IF ses_script = "pod" /\ option
        THEN SesFinishLogin("skipped", ses_access, ses_refresh)
        ELSE IF ses_access = None
        THEN IF entered
             THEN SesLoginAttempt
             ELSE SesFinishLogin("skipped", ses_access, ses_refresh)
        ELSE SesFinishLogin("saved", ses_access, ses_refresh)
    /\ UNCHANGED <<ses_script, ses_file, ses_i, ses_requests>>
    /\ SesFrame

\* The media URL of the next episode: get_audio_url(podcast_id, auth) in
\* generate_rss_feed and podcaster357, get_audio_url_from_api in
\* download_from_feed, which is called for an episode with a guid only
\* when auth.is_authenticated().  A 401 answered to a session with an
\* access token is followed by refresh() and, if that succeeds, by a second
\* request with the new headers.
SesResolve ==
    /\ ses_pc = "run"
    /\ ses_i < MaxSesEpisodes
    /\ ses_i' = ses_i + 1
    /\ \E guid \in BOOLEAN, resp \in GatewayResponses, id \in IdentityResponses :
        LET h == IF ses_auth THEN HeadersFor(ses_access) ELSE NoHeaders
            refreshed == SesRefresh(ses_access, ses_refresh, id)
        IN  IF ses_script = "dl" /\ ~(guid /\ ses_access /= None)
            THEN UNCHANGED <<ses_access, ses_refresh, ses_requests>>
            ELSE IF resp.status = "401" /\ ses_auth /\ ses_access /= None
            THEN /\ ses_access' = refreshed.access
                 /\ ses_refresh' = refreshed.refresh
                 /\ ses_requests' =
                        IF refreshed.ok
                        THEN ses_requests
                                 \o <<h, HeadersFor(refreshed.access)>>
                        ELSE Append(ses_requests, h)
            ELSE /\ ses_requests' = Append(ses_requests, h)
                 /\ UNCHANGED <<ses_access, ses_refresh>>
    /\ UNCHANGED <<ses_script, ses_pc, ses_file, ses_auth, ses_login>>
    /\ SesFrame

\* The run ends after its last episode.
SesDone ==
    /\ ses_pc = "run"
    /\ ses_i = MaxSesEpisodes
    /\ ses_pc' = "done"
    /\ UNCHANGED <<ses_script, ses_file, ses_access, ses_refresh, ses_auth, ses_login, ses_i, ses_requests>>
    /\ SesFrame

NextSession ==
    \/ SesStart
    \/ SesResolve
    \/ SesDone

SpecSession == InitSession /\ [][NextSession]_vars

\* C22: a failed or skipped login does not end the run, and every media-URL
\* request the run sends afterwards carries no Authorization header.
C22_FailedLoginRunsWithoutAuthorization ==
    ses_login \in {"failed", "skipped"} =>
        /\ ses_pc \in {"run", "done"}
        /\ \A k \in DOMAIN ses_requests : ses_requests[k] = NoHeaders

\* A run whose token file held an access token went on after a failed or
\* skipped login, sent media-URL requests and ended.
C22_Witness ==
    /\ ses_login \in {"failed", "skipped"}
    /\ Truthy(ses_file.accessToken)
    /\ ses_pc = "done"
    /\ Len(ses_requests) = MaxSesEpisodes

(***************************************************************************)
(* Program list crawl: fetch_all_programs (podcaster357, list_authors)     *)
(***************************************************************************)

\* Largest number of page requests explored.
MaxProgramPages == 3

\* Answers to GET /programs?page=p.  "ok" carries _embedded.programs with n
\* programs and, as pagination, neither key, the total key alone, both the
\* page and the total key, or both with a total that cannot be compared
\* with a number; "malformed" is a body without _embedded.programs;
\* "exception" is a transport error, an HTTP error status or a body that is
\* not JSON.
ProgramsPage(n, pagination, total) == [kind |-> "ok", n |-> n, pagination |-> pagination, total |-> total]
NoProgramsPage(kind) == [kind |-> kind, n |-> 0, pagination |-> "none", total |-> 0]

ProgramsAnswers ==
    {ProgramsPage(n, pg, 0) : n \in {0, 100, PAGE_SIZE}, pg \in {"none", "bad_total"}}
        \cup {ProgramsPage(n, pg, t) : n \in {0, 100, PAGE_SIZE}, pg \in {"total", "page_total"}, t \in {250, 350, 500}}
        \cup {NoProgramsPage("malformed"), NoProgramsPage("exception")}

\* len(all_programs)
RECURSIVE FpLen(_)
FpLen(all) == IF all = << >> THEN 0 ELSE all[1][2] + FpLen(Tail(all))

\* "all_programs.extend(programs)" is reached.
Extends(resp) == resp.kind = "ok" /\ resp.n > 0

\* A loop that does not look at the total:
Continues_ignores_total(resp, len) == resp.kind = "ok" /\ resp.n >= PAGE_SIZE

\* "page += 1" is reached: the page held programs, the total, if the body
\* has the page and the total key, is not reached (a comparison that raises
\* ends the loop in the except clause), and the page is full.
Continues(resp, len) ==
    /\ resp.kind = "ok"
    /\ resp.n > 0
    /\ resp.pagination /= "bad_total"
    /\ ~(resp.pagination = "page_total" /\ len >= resp.total)
    /\ resp.n >= PAGE_SIZE

\* The answers explored for a page: the last page explored is not a full one.
ProgramsAnswersAt(number) ==
    IF number < MaxProgramPages - 1 THEN ProgramsAnswers
    ELSE {resp \in ProgramsAnswers : resp.n < PAGE_SIZE}

InitPrograms ==
    /\ EarlierOff
    /\ SessionOff
    /\ BatchOff
    /\ fp_pc = "loop"
    /\ fp_page = 0
    /\ fp_all = << >>
    /\ fp_served = << >>

FpFrame == UNCHANGED <<fetchVars, authVars, resolveVars, authorsVars, selectVars, feedVars, runVars, dlVars, sessionVars, batchVars>>

\* One iteration of "while True".
FetchProgramsPage ==
    /\ fp_pc = "loop"
    /\ \E resp \in ProgramsAnswersAt(fp_page) :
        LET all == IF Extends(resp)
                   THEN Append(fp_all, <<fp_page, resp.n>>)
                   ELSE fp_all
        IN  /\ fp_served' = Append(fp_served, [page |-> fp_page, resp |-> resp])
            /\ fp_all' = all
            /\ IF Continues(resp, FpLen(all))
               THEN /\ fp_page' = fp_page + 1
                    /\ fp_pc' = "loop"
               ELSE /\ fp_page' = fp_page
                    /\ fp_pc' = "break"
    /\ FpFrame

\* "return all_programs"
FetchProgramsReturn ==
    /\ fp_pc = "break"
    /\ fp_pc' = "done"
    /\ UNCHANGED <<fp_page, fp_all, fp_served>>
    /\ FpFrame

NextPrograms ==
    \/ FetchProgramsPage
    \/ FetchProgramsReturn

SpecPrograms == InitPrograms /\ [][NextPrograms]_vars

\* The programs an answer carries.
Carried(resp) == IF resp.kind = "ok" THEN resp.n ELSE 0

\* The programs carried by the first k answers.
RECURSIVE Running(_)
Running(k) == IF k = 0 THEN 0 ELSE Carried(fp_served[k].resp) + Running(k - 1)

\* The k-th answer ends the crawl: a transport exception, an empty or
\* malformed page, a page of fewer than 250 programs, or a page that brings
\* the running total to the total declared beside the page number.
EndsCrawl(k) ==
    LET resp == fp_served[k].resp
    IN  \/ resp.kind \in {"exception", "malformed"}
        \/ resp.n = 0
        \/ resp.n < PAGE_SIZE
        \/ resp.pagination = "bad_total"
        \/ resp.pagination = "page_total" /\ Running(k) >= resp.total

RequestBelowBound ==
    fe_requests' > fe_requests => Len(all_episodes) < max_episodes

\* C24: fetch_all_episodes returns for every upstream, one serving full
\* pages without end included; it issues no page request once the running
\* total has met or passed max_episodes, and none at all for max_episodes = 0.
C24_CrawlEndsWithinBound ==
    /\ <>(fe_pc = "done")
    /\ [][RequestBelowBound]_vars
    /\ [](fe_requests <= (max_episodes + PAGE_SIZE - 1) \div PAGE_SIZE)
    /\ [](max_episodes = 0 => fe_requests = 0)

\* A crawl of the long upstream ended after the four full pages that reach
\* max_episodes = 1000.
C24_Witness ==
    /\ fe_pc = "done"
    /\ upstream_len = LongUpstream
    /\ max_episodes = 1000
    /\ fe_clean
    /\ fe_requests = 4

(***************************************************************************)
(* Properties of SpecSelect: the early exit of the selection scan          *)
(***************************************************************************)

\* The episodes of the i-th cached program that match the author and pass
\* the exclusive filter, as the function applied matches them.
SelMatching(i) ==
    IF sel_pc = "optimized"
    THEN MatchingById(sel_cache[i].episodes, sel_author, sel_include_exclusive)
    ELSE MatchingByEmail(sel_cache[i].episodes, sel_author, sel_include_exclusive)

\* Those of the first k cached programs.
RECURSIVE SelPool(_)
SelPool(k) == IF k = 0 THEN << >> ELSE SelPool(k - 1) \o SelMatching(k)

\* The shortest prefix of the cache holding at least sel_limit of them, the
\* whole cache if there is none.
SelPrefix ==
    LET reaching == {k \in 0..Len(sel_cache) : Len(SelPool(k)) >= sel_limit}
    IN  IF reaching = {} THEN Len(sel_cache)
        ELSE CHOOSE k \in reaching : \A j \in reaching : k <= j

\* result holds the limit most recent episodes of pool, each once, most
\* recent first.
MostRecentOf(result, pool, limit) ==
    /\ Len(result) = Min(limit, Len(pool))
    /\ \A i \in DOMAIN result : \E j \in DOMAIN pool : pool[j] = result[i]
    /\ \A i, j \in DOMAIN result :
           i < j => /\ result[i].id /= result[j].id
                    /\ DateKey(result[i]).v >= DateKey(result[j]).v
    /\ \A j \in DOMAIN pool :
           (\A i \in DOMAIN result : result[i] /= pool[j])
               => \A i \in DOMAIN result :
                      DateKey(pool[j]).v <= DateKey(result[i]).v

\* C25: the per-author selection over a cache returns the limit most recent
\* matching, filter-passing episodes of the shortest prefix of cached
\* programs that holds at least limit of them, or of the whole cache.
C25_ResultFromShortestPrefix ==
    (sel_pc \in {"from_cache", "optimized"} /\ ~sel_out.error)
        => MostRecentOf(sel_out.episodes, SelPool(SelPrefix), sel_limit)

\* The aggregation applied lists an author for whom the selection paired
\* with it in the same script, with exclusive episodes included, returns
\* an empty list (a selection that raises in its sort is left aside here).
ListedWithoutEpisodes(author) ==
    LET out == IF sel_pc = "authors_by_id"
               THEN collect_episodes_by_author_id_from_cache(
                        author.id, sel_cache, sel_limit, TRUE)
               ELSE collect_episodes_by_author_optimized(
                        author.id, sel_program_ids, sel_cache, sel_limit, TRUE)
    IN  ~out.error /\ out.episodes = << >>

\* C28: every author listed by the aggregation of generate_author_feed_by_id
\* or of generate_all_author_feeds gets at least one episode from the
\* per-author selection of the same script over the same cache, with
\* exclusive episodes included and a limit of at least 1.
C28_ListedAuthorsHaveEpisodes ==
    (/\ sel_pc \in {"authors_by_id", "authors_all_feeds"}
     /\ ~sel_out.error
     /\ sel_limit >= 1)
        => \A k \in DOMAIN sel_out.authors :
               ~ListedWithoutEpisodes(sel_out.authors[k])

(***************************************************************************)
(* Properties of SpecRun: the author loop of generate_all_author_feeds     *)
(***************************************************************************)

\* C29: in generate_all_author_feeds, with the authors scanned or loaded
\* from an authors file, every author selected is counted once as success
\* or error and the run reaches its summary with success + error equal to
\* the number of authors selected.
C29_EveryAuthorCounted ==
    (run_script \in {"all_feeds", "all_feeds_authors_file"}
        /\ run_authors /= << >>)
        => /\ run_pc \in {"authors", "done"}
           /\ run_pc = "authors" => success_count + error_count = run_a - 1
           /\ run_pc = "done" => success_count + error_count = Len(run_authors)

(***************************************************************************)
(* Batch generator: the program loop of generate_all_feeds.py (main)       *)
(***************************************************************************)

\* Longest configuration explored.
MaxBatchPrograms == 3

\* Program ids of a configuration file: digit strings, repeated lines kept.
BatchIds == {"1", "2"}

\* The "name" member of a program's metadata: a text, a text without a
\* letter or digit, a JSON null, or no such member.
BatchNames == {<<"A", " ", "-", "b", "!">>, <<"!", " ">>, Null, Absent}

\* Answers of get_program_info: an exception or the metadata.
BatchInfos ==
    {[ok |-> FALSE, name |-> Absent]}
        \cup {[ok |-> TRUE, name |-> n] : n \in BatchNames}

\* str.lower() on the letters explored.
Lower(c) == IF c = "A" THEN "a" ELSE IF c = "B" THEN "b" ELSE IF c = "P" THEN "p" ELSE c

\* Characters matched by \w among those explored.
WordChars == {"A", "B", "P", "a", "b", "g", "m", "o", "p", "r", "_"} \cup {ToString(d) : d \in 0..9}

\* re.sub(r'[\s-]+', '_', text)
RECURSIVE BlanksToUnderscore(_)
BlanksToUnderscore(chars) ==
    IF chars = << >> THEN << >>
    ELSE IF Head(chars) \in {" ", "-"}
    THEN IF Len(chars) > 1 /\ chars[2] \in {" ", "-"}
         THEN BlanksToUnderscore(Tail(chars))
         ELSE <<"_">> \o BlanksToUnderscore(Tail(chars))
    ELSE <<Head(chars)>> \o BlanksToUnderscore(Tail(chars))

\* text.strip('_')
RECURSIVE StripUnderscores(_)
StripUnderscores(chars) ==
    IF chars /= << >> /\ Head(chars) = "_" THEN StripUnderscores(Tail(chars))
    ELSE IF chars /= << >> /\ chars[Len(chars)] = "_"
    THEN StripUnderscores(SubSeq(chars, 1, Len(chars) - 1))
    ELSE chars

\* slugify(text) for a text without Polish letters: characters other than
\* letters, digits, "_", blanks and "-" are removed, runs of blanks and "-"
\* become "_", the text is lowered and "_" is stripped from both ends.
slugify(text) ==
    LET kept == SelectSeq(text, LAMBDA c : c \in WordChars \cup {" ", "-"})
        lowered == [i \in DOMAIN BlanksToUnderscore(kept) |-> Lower(BlanksToUnderscore(kept)[i])]
    IN  StripUnderscores(lowered)

\* slugify(None): None has no replace().
SlugifyRaises(name) == name = Null

\* f"{filename_slug}.xml", the slug being program_{id} when slugify gives "".
BatchOutputFile(program_id, program_name) ==
    IF slugify(program_name) = << >> THEN "program_" \o program_id \o ".xml"
    ELSE Text(slugify(program_name)) \o ".xml"

\* Where the loop stands after an iteration counted as outcome: "continue"
\* and the end of the body both lead to the next program id.
BatchCount(outcome) == "loop"

InitBatch ==
    /\ EarlierOff
    /\ SessionOff
    /\ ProgramsOff
    /\ bt_pc = "loop"
    /\ bt_program_ids \in UNION {[1..n -> BatchIds] : n \in 1..MaxBatchPrograms}
    /\ bt_i = 1
    /\ bt_log = << >>
    /\ bt_success_count = 0
    /\ bt_error_count = 0

BtFrame == UNCHANGED <<fetchVars, authVars, resolveVars, authorsVars, selectVars, feedVars, runVars, dlVars, sessionVars, programsVars>>

\* The iteration is counted and recorded.
BatchCounted(program_id, outcome, file) ==
    /\ bt_log' = Append(bt_log, [program_id |-> program_id, outcome |-> outcome, file |-> file])
    /\ bt_success_count' = bt_success_count + (IF outcome = "success" THEN 1 ELSE 0)
    /\ bt_error_count' = bt_error_count + (IF outcome = "success" THEN 0 ELSE 1)
    /\ bt_i' = bt_i + 1
    /\ bt_pc' = BatchCount(outcome)

\* One iteration of "for i, program_id in enumerate(program_ids, 1)":
\* get_program_info inside try, the file name outside any try, and
\* generate_rss_feed inside try, returning True or False or raising.
BatchProgram ==
    /\ bt_pc = "loop"
    /\ bt_i <= Len(bt_program_ids)
    /\ \E info \in BatchInfos, feed \in {"true", "false", "exception"} :
        LET program_id == bt_program_ids[bt_i]
            program_name == IF info.name = Absent
                            THEN <<"P", "r", "o", "g", "r", "a", "m", " ", program_id>>
                            ELSE info.name
        IN  IF ~info.ok
            THEN BatchCounted(program_id, "info_failed", "")
            ELSE IF SlugifyRaises(program_name)
            THEN /\ bt_pc' = "crashed"
                 /\ UNCHANGED <<bt_i, bt_log, bt_success_count, bt_error_count>>
            ELSE BatchCounted(program_id,
                              IF feed = "true" THEN "success"
                              ELSE IF feed = "false" THEN "feed_failed"
                              ELSE "feed_raised",
                              BatchOutputFile(program_id, program_name))
    /\ UNCHANGED bt_program_ids
    /\ BtFrame

\* The loop is over and the summary is printed.
BatchDone ==
    /\ bt_pc = "loop"
    /\ bt_i > Len(bt_program_ids)
    /\ bt_pc' = "done"
    /\ UNCHANGED <<bt_program_ids, bt_i, bt_log, bt_success_count, bt_error_count>>
    /\ BtFrame

NextBatch ==
    \/ BatchProgram
    \/ BatchDone

SpecBatch == InitBatch /\ [][NextBatch]_vars

\* C30: a failure for one program is counted as an error for that program
\* only, every program id of the configuration is gone through once and in
\* order, and success + error is the number of program ids when the summary
\* is reached.
C30_EveryProgramCounted ==
    /\ bt_pc /= "crashed"
    /\ \A k \in DOMAIN bt_log : bt_log[k].program_id = bt_program_ids[k]
    /\ bt_pc = "loop" =>
           /\ Len(bt_log) = bt_i - 1
           /\ bt_success_count + bt_error_count = bt_i - 1
    /\ bt_pc = "done" =>
           /\ Len(bt_log) = Len(bt_program_ids)
           /\ bt_success_count + bt_error_count = Len(bt_program_ids)

====
